---------------------------- MODULE Spec2Model ----------------------------
(***************************************************************************)
(* A model of the portfolio server's retrieval-augmented chat: the         *)
(* chunker (rag/chunker.js), the embedding store (rag/embed.js), the       *)
(* retriever (rag/retriever.js), the responder (rag/llm.js) and the        *)
(* /api/upload and /api/chat handlers of server.js.                        *)
(*                                                                         *)
(* JavaScript strings are sequences of one-character strings, so that      *)
(* toLowerCase, split, includes and join are computed and not assumed.     *)
(* A JavaScript value that may be null or undefined is a record with a     *)
(* kind field.                                                             *)
(***************************************************************************)
EXTENDS Integers, Sequences, FiniteSets, TLC

VARIABLES
    configured,          \* isProviderConfigured(): fixed by the environment
    embeddingsSupported, \* supportsEmbeddings(): fixed by the environment
    portfolioFile,       \* the content of data/portfolio.json
    backups,             \* the portfolio.backup-*.json files, oldest first
    embeddingsCache,     \* embed.js: let embeddingsCache
    publishedBy,         \* history: the rebuild that assigned embeddingsCache last
    rebuild,             \* per rebuild: the locals of the upload handler and of
                         \*   initializeEmbeddings (rebuild 0 is startServer's)
    chat,                \* the locals of the /api/chat handler, of
                         \*   retrieveRelevantChunks and of generateResponse
    \* public/js/chatbox.js, in the browser
    isProcessing,        \* let isProcessing
    chatboxInput,        \* chatboxInput.value
    chatboxMessages,     \* the children of the chatbox-messages element
    now,                 \* the last value Date.now() returned
    sending,             \* per call of sendMessage: its position and its locals
    \* POST /api/theme-analytics
    analyticsFile,       \* the content of the file at ANALYTICS_PATH
    analyticsBefore,     \* history: the content of that file at the start
    themeRequest         \* per request: the position and the locals of the handler

server == << configured, embeddingsSupported, portfolioFile, backups,
             embeddingsCache, publishedBy, rebuild, chat >>
browser == << isProcessing, chatboxInput, chatboxMessages, now, sending >>
themes == << analyticsFile, analyticsBefore, themeRequest >>

vars == << server, browser, themes >>

-----------------------------------------------------------------------------
(* Bounds *)

\* the number of /api/upload requests; rebuild 0 is startServer's.  Chat
\* requests only read embeddingsCache and share nothing else, so one request
\* at a time is followed, concurrently with the rebuilds.
MaxUploads == 1

Uploads == 1 .. MaxUploads
Rebuilds == 0 .. MaxUploads

-----------------------------------------------------------------------------
(* JavaScript strings *)

Min(a, b) == IF a <= b THEN a ELSE b

\* String.prototype.toLowerCase on one character
LowerTable ==
    [ c \in { "A","B","C","D","E","F","G","H","I","J","K","L","M",
              "N","O","P","Q","R","S","T","U","V","W","X","Y","Z" } |->
        CASE c = "A" -> "a" [] c = "B" -> "b" [] c = "C" -> "c" [] c = "D" -> "d"
          [] c = "E" -> "e" [] c = "F" -> "f" [] c = "G" -> "g" [] c = "H" -> "h"
          [] c = "I" -> "i" [] c = "J" -> "j" [] c = "K" -> "k" [] c = "L" -> "l"
          [] c = "M" -> "m" [] c = "N" -> "n" [] c = "O" -> "o" [] c = "P" -> "p"
          [] c = "Q" -> "q" [] c = "R" -> "r" [] c = "S" -> "s" [] c = "T" -> "t"
          [] c = "U" -> "u" [] c = "V" -> "v" [] c = "W" -> "w" [] c = "X" -> "x"
          [] c = "Y" -> "y" [] c = "Z" -> "z" ]

Lower(c) == IF c \in DOMAIN LowerTable THEN LowerTable[c] ELSE c

toLowerCase(s) == [i \in 1 .. Len(s) |-> Lower(s[i])]

\* String.prototype.includes
includes(s, sub) ==
    \E i \in 0 .. (Len(s) - Len(sub)) : \A j \in 1 .. Len(sub) : s[i + j] = sub[j]

IsSpace(c) == c \in {" ", "\t", "\n"}

RECURSIVE SplitFrom(_, _, _, _)
SplitFrom(s, i, cur, acc) ==
    IF i > Len(s) THEN Append(acc, cur)
    ELSE IF IsSpace(s[i])
         THEN IF i > 1 /\ IsSpace(s[i - 1])
              THEN SplitFrom(s, i + 1, cur, acc)
              ELSE SplitFrom(s, i + 1, << >>, Append(acc, cur))
         ELSE SplitFrom(s, i + 1, Append(cur, s[i]), acc)

\* s.split(/\s+/)
splitWhitespace(s) == SplitFrom(s, 1, << >>, << >>)

RECURSIVE join(_, _)
join(arr, sep) ==
    IF Len(arr) = 0 THEN << >>
    ELSE IF Len(arr) = 1 THEN arr[1]
    ELSE arr[1] \o sep \o join(Tail(arr), sep)

RECURSIVE Concat(_)
Concat(seqs) == IF Len(seqs) = 0 THEN << >> ELSE seqs[1] \o Concat(Tail(seqs))

Digit == <<"0","1","2","3","4","5","6","7","8","9">>

RECURSIVE IntToStr(_)
IntToStr(n) == IF n < 10 THEN << Digit[n + 1] >>
               ELSE IntToStr(n \div 10) \o << Digit[(n % 10) + 1] >>

SelectSeqIdx(s, keep) == 
    LET F[i \in 0 .. Len(s)] ==
            IF i = 0 THEN << >>
            ELSE IF i \in keep THEN Append(F[i - 1], s[i]) ELSE F[i - 1]
    IN F[Len(s)]

(* String constants *)

str_undefined == <<"u","n","d","e","f","i","n","e","d">>
str_comma == <<","," ">>
str_ProfileP == <<"P","r","o","f","i","l","e",":"," ">>
str_is_a == <<" ","i","s"," ","a"," ">>
str_based_in == <<" ","b","a","s","e","d"," ","i","n"," ">>
str_Email == <<"."," ","E","m","a","i","l",":"," ">>
str_dotsp == <<"."," ">>
str_Skills == <<"S","k","i","l","l","s"," ","-"," ">>
str_colon == <<":"," ">>
str_ProjectP == <<"P","r","o","j","e","c","t",":"," ">>
str_TechUsed == <<"."," ","T","e","c","h","n","o","l","o","g","i","e","s"," ","u","s","e","d",":"," ">>
str_dot == <<".">>
str_ExperienceP == <<"E","x","p","e","r","i","e","n","c","e",":"," ">>
str_at == <<" ","a","t"," ">>
str_lpar == <<" ","(">>
str_rpardot == <<")",".">>
str_KeyAch == <<" ","K","e","y"," ","a","c","h","i","e","v","e","m","e","n","t","s",":"," ">>
str_sp == <<" ">>
str_EducationP == <<"E","d","u","c","a","t","i","o","n",":"," ">>
str_from == <<" ","f","r","o","m"," ">>
str_rpar == <<")">>
str_CertificationP == <<"C","e","r","t","i","f","i","c","a","t","i","o","n",":"," ">>
str_issued_by == <<" ","i","s","s","u","e","d"," ","b","y"," ">>
str_obtained == <<","," ","o","b","t","a","i","n","e","d"," ","i","n"," ">>
str_AllCert == <<"A","l","l"," ","C","e","r","t","i","f","i","c","a","t","i","o","n","s",":"," ">>
str_Interests == <<"I","n","t","e","r","e","s","t","s"," ","a","n","d"," ","H","o","b","b","i","e","s",":"," ">>
str_Social == <<"S","o","c","i","a","l"," ","L","i","n","k","s",":"," ">>
id_profile == <<"p","r","o","f","i","l","e">>
id_skill == <<"s","k","i","l","l","-">>
id_project == <<"p","r","o","j","e","c","t","-">>
id_experience == <<"e","x","p","e","r","i","e","n","c","e","-">>
id_education == <<"e","d","u","c","a","t","i","o","n","-">>
id_certification == <<"c","e","r","t","i","f","i","c","a","t","i","o","n","-">>
id_certsummary == <<"c","e","r","t","i","f","i","c","a","t","i","o","n","s","-","s","u","m","m","a","r","y">>
id_interests == <<"i","n","t","e","r","e","s","t","s">>
id_socials == <<"s","o","c","i","a","l","s">>
kw_project == <<"p","r","o","j","e","c","t">>
kw_skill == <<"s","k","i","l","l">>
kw_know == <<"k","n","o","w">>
kw_technology == <<"t","e","c","h","n","o","l","o","g","y">>
kw_experience == <<"e","x","p","e","r","i","e","n","c","e">>
kw_work == <<"w","o","r","k">>
kw_job == <<"j","o","b">>
kw_who == <<"w","h","o">>
kw_about == <<"a","b","o","u","t">>
kw_name == <<"n","a","m","e">>
kw_certif == <<"c","e","r","t","i","f">>
kw_credential == <<"c","r","e","d","e","n","t","i","a","l">>
kw_qualified == <<"q","u","a","l","i","f","i","e","d">>
kw_interest == <<"i","n","t","e","r","e","s","t">>
kw_hobby == <<"h","o","b","b","y">>
kw_hobbies == <<"h","o","b","b","i","e","s">>
kw_fun == <<"f","u","n">>
msg_NotEnough == <<"I"," ","d","o","n","'","t"," ","h","a","v","e"," ","e","n","o","u","g","h"," ","i","n","f","o","r","m","a","t","i","o","n"," ","t","o"," ","a","n","s","w","e","r"," ","t","h","a","t"," ","q","u","e","s","t","i","o","n","."," ","P","l","e","a","s","e"," ","t","r","y"," ","a","s","k","i","n","g"," ","a","b","o","u","t"," ","t","h","e"," ","p","o","r","t","f","o","l","i","o"," ","o","w","n","e","r","'","s"," ","s","k","i","l","l","s",","," ","p","r","o","j","e","c","t","s",","," ","o","r"," ","e","x","p","e","r","i","e","n","c","e",".">>
tpl_Project == <<"H","e","r","e","'","s"," ","i","n","f","o","r","m","a","t","i","o","n"," ","a","b","o","u","t"," ","a"," ","p","r","o","j","e","c","t",":"," ">>
tpl_Skills == <<"H","e","r","e"," ","a","r","e"," ","s","o","m","e"," ","s","k","i","l","l","s",":"," ">>
tpl_Experience == <<"H","e","r","e","'","s"," ","w","o","r","k"," ","e","x","p","e","r","i","e","n","c","e",":"," ">>
tpl_Certifications == <<"H","e","r","e"," ","a","r","e"," ","c","e","r","t","i","f","i","c","a","t","i","o","n","s",":"," ">>
tpl_Generic == <<"B","a","s","e","d"," ","o","n"," ","t","h","e"," ","p","o","r","t","f","o","l","i","o",":"," ">>

typeKeywords ==
  [ project |-> <<
        <<"p","r","o","j","e","c","t">>,
        <<"b","u","i","l","t">>,
        <<"c","r","e","a","t","e","d">>,
        <<"d","e","v","e","l","o","p","e","d">>,
        <<"a","p","p">>,
        <<"w","e","b","s","i","t","e">>,
        <<"p","i","p","e","l","i","n","e">>,
        <<"s","y","s","t","e","m">>
      >>,
    skill |-> <<
        <<"s","k","i","l","l">>,
        <<"k","n","o","w">>,
        <<"t","e","c","h","n","o","l","o","g","y">>,
        <<"l","a","n","g","u","a","g","e">>,
        <<"f","r","a","m","e","w","o","r","k">>,
        <<"t","o","o","l">>,
        <<"t","e","c","h">>,
        <<"s","t","a","c","k">>
      >>,
    experience |-> <<
        <<"w","o","r","k">>,
        <<"j","o","b">>,
        <<"c","o","m","p","a","n","y">>,
        <<"r","o","l","e">>,
        <<"p","o","s","i","t","i","o","n">>,
        <<"e","x","p","e","r","i","e","n","c","e">>,
        <<"c","a","r","e","e","r">>,
        <<"e","m","p","l","o","y","e","d">>
      >>,
    education |-> <<
        <<"e","d","u","c","a","t","i","o","n">>,
        <<"d","e","g","r","e","e">>,
        <<"u","n","i","v","e","r","s","i","t","y">>,
        <<"s","c","h","o","o","l">>,
        <<"s","t","u","d","y">>,
        <<"c","o","l","l","e","g","e">>,
        <<"b","a","c","h","e","l","o","r">>,
        <<"m","a","s","t","e","r">>
      >>,
    profile |-> <<
        <<"w","h","o">>,
        <<"a","b","o","u","t">>,
        <<"n","a","m","e">>,
        <<"c","o","n","t","a","c","t">>,
        <<"e","m","a","i","l">>,
        <<"s","u","m","m","a","r","y">>,
        <<"i","n","t","r","o","d","u","c","e">>
      >>,
    social |-> <<
        <<"s","o","c","i","a","l">>,
        <<"l","i","n","k">>,
        <<"g","i","t","h","u","b">>,
        <<"l","i","n","k","e","d","i","n">>,
        <<"t","w","i","t","t","e","r">>,
        <<"m","e","d","i","u","m">>,
        <<"p","o","r","t","f","o","l","i","o">>,
        <<"w","e","b","s","i","t","e">>
      >>,
    certification |-> <<
        <<"c","e","r","t","i","f","i","c","a","t","i","o","n">>,
        <<"c","e","r","t","i","f","i","e","d">>,
        <<"c","e","r","t","i","f","i","c","a","t","e">>,
        <<"c","r","e","d","e","n","t","i","a","l">>,
        <<"b","a","d","g","e">>,
        <<"q","u","a","l","i","f","i","c","a","t","i","o","n">>
      >>,
    interests |-> <<
        <<"i","n","t","e","r","e","s","t">>,
        <<"h","o","b","b","y">>,
        <<"h","o","b","b","i","e","s">>,
        <<"l","i","k","e">>,
        <<"e","n","j","o","y">>,
        <<"p","a","s","s","i","o","n">>,
        <<"f","r","e","e"," ","t","i","m","e">>,
        <<"f","u","n">>
      >> ]

-----------------------------------------------------------------------------
(* rag/chunker.js *)

\* `${r.f}` in a template literal: a missing field prints as "undefined"
Interp(r, f) == IF f \in DOMAIN r THEN r[f] ELSE str_undefined

\* portfolio.s && Array.isArray(portfolio.s)
HasArray(portfolio, s) == s \in DOMAIN portfolio /\ portfolio[s].isArray

SectionOf(portfolio, s) == IF HasArray(portfolio, s) THEN portfolio[s].v ELSE << >>

\* skillCategory.items.join and project.technologies.join raise a TypeError
\* when the field is missing; the try block's catch then returns [].
chunkerThrows(portfolio) ==
    \/ \E i \in DOMAIN SectionOf(portfolio, "skills") :
            "items" \notin DOMAIN SectionOf(portfolio, "skills")[i]
    \/ \E i \in DOMAIN SectionOf(portfolio, "projects") :
            "technologies" \notin DOMAIN SectionOf(portfolio, "projects")[i]

profileChunks(portfolio) ==
    IF "profile" \in DOMAIN portfolio
    THEN LET p == portfolio.profile IN
         << [ id |-> id_profile, type |-> "profile",
              text |-> str_ProfileP \o Interp(p, "name") \o str_is_a
                       \o Interp(p, "title") \o str_based_in
                       \o Interp(p, "location") \o str_Email
                       \o Interp(p, "email") \o str_dotsp
                       \o Interp(p, "summary") ] >>
    ELSE << >>

skillChunks(portfolio) ==
    LET skills == SectionOf(portfolio, "skills") IN
    [ i \in 1 .. Len(skills) |->
        [ id |-> id_skill \o IntToStr(i - 1), type |-> "skill",
          text |-> str_Skills \o Interp(skills[i], "category") \o str_colon
                   \o join(skills[i].items, str_comma) ] ]

\* a variant whose ids leave the index out
projectChunksUnnumbered(portfolio) ==
    LET projects == SectionOf(portfolio, "projects") IN
    [ i \in 1 .. Len(projects) |->
        [ id |-> id_project, type |-> "project",
          text |-> str_ProjectP \o Interp(projects[i], "title") \o str_dotsp
                   \o Interp(projects[i], "description") \o str_TechUsed
                   \o join(projects[i].technologies, str_comma) \o str_dot ] ]

projectChunks(portfolio) ==
    LET projects == SectionOf(portfolio, "projects") IN
    [ i \in 1 .. Len(projects) |->
        [ id |-> id_project \o IntToStr(i - 1), type |-> "project",
          text |-> str_ProjectP \o Interp(projects[i], "title") \o str_dotsp
                   \o Interp(projects[i], "description") \o str_TechUsed
                   \o join(projects[i].technologies, str_comma) \o str_dot ] ]

experienceText(exp) ==
    str_ExperienceP \o Interp(exp, "role") \o str_at \o Interp(exp, "company")
    \o str_lpar \o Interp(exp, "period") \o str_rpardot
    \o ( IF "highlights" \in DOMAIN exp /\ exp.highlights.isArray
         THEN str_KeyAch \o join(exp.highlights.v, str_dotsp) \o str_dot
         ELSE IF "description" \in DOMAIN exp /\ Len(exp.description) > 0
              THEN str_sp \o exp.description
              ELSE << >> )

experienceChunks(portfolio) ==
    LET experience == SectionOf(portfolio, "experience") IN
    [ i \in 1 .. Len(experience) |->
        [ id |-> id_experience \o IntToStr(i - 1), type |-> "experience",
          text |-> experienceText(experience[i]) ] ]

educationChunks(portfolio) ==
    LET education == SectionOf(portfolio, "education") IN
    [ i \in 1 .. Len(education) |->
        [ id |-> id_education \o IntToStr(i - 1), type |-> "education",
          text |-> str_EducationP \o Interp(education[i], "degree") \o str_from
                   \o Interp(education[i], "institution") \o str_lpar
                   \o Interp(education[i], "year") \o str_rpar ] ]

certificationChunks(portfolio) ==
    IF HasArray(portfolio, "certifications")
    THEN LET certs == portfolio.certifications.v
             certList == join([ i \in 1 .. Len(certs) |->
                                  Interp(certs[i], "name") \o str_lpar
                                  \o Interp(certs[i], "issuer") \o str_rpar ],
                              str_comma)
         IN  [ i \in 1 .. Len(certs) |->
                 [ id |-> id_certification \o IntToStr(i - 1),
                   type |-> "certification",
                   text |-> str_CertificationP \o Interp(certs[i], "name")
                            \o str_issued_by \o Interp(certs[i], "issuer")
                            \o str_obtained \o Interp(certs[i], "year") ] ]
             \o << [ id |-> id_certsummary, type |-> "certification",
                     text |-> str_AllCert \o certList ] >>
    ELSE << >>

interestsChunks(portfolio) ==
    IF HasArray(portfolio, "interests")
    THEN << [ id |-> id_interests, type |-> "interests",
              text |-> str_Interests \o join(portfolio.interests.v, str_comma) ] >>
    ELSE << >>

socialsChunks(portfolio) ==
    IF HasArray(portfolio, "socials")
    THEN LET socials == portfolio.socials.v
             socialLinks == join([ i \in 1 .. Len(socials) |->
                                     Interp(socials[i], "platform") \o str_colon
                                     \o Interp(socials[i], "url") ],
                                 str_comma)
         IN  << [ id |-> id_socials, type |-> "social",
                  text |-> str_Social \o socialLinks ] >>
    ELSE << >>

\* A variant of the chunker whose failure to read or parse is not caught:
\* the caller is left with a chunk that has no content
chunkUncaught(file) ==
    IF file.kind = "json" /\ ~chunkerThrows(file.v)
    THEN profileChunks(file.v) \o skillChunks(file.v) \o projectChunks(file.v)
         \o experienceChunks(file.v) \o educationChunks(file.v)
         \o certificationChunks(file.v) \o interestsChunks(file.v)
         \o socialsChunks(file.v)
    ELSE << [ id |-> str_undefined, type |-> "undefined", text |-> str_undefined ] >>

\* file is the content of data/portfolio.json: [kind |-> "missing"],
\* [kind |-> "garbage"] (not JSON) or [kind |-> "json", v |-> portfolio]
chunkPortfolio(file) ==
    IF file.kind # "json" THEN << >>
    ELSE IF chunkerThrows(file.v) THEN << >>
    ELSE profileChunks(file.v) \o skillChunks(file.v) \o projectChunks(file.v)
         \o experienceChunks(file.v) \o educationChunks(file.v)
         \o certificationChunks(file.v) \o interestsChunks(file.v)
         \o socialsChunks(file.v)

-----------------------------------------------------------------------------
(* Portfolio documents: the contents data/portfolio.json takes in the model *)

JaneProfile ==
    [ name |-> <<"J","a","n","e">>, title |-> <<"D","e","v">>,
      location |-> <<"O","s","l","o">>, email |-> <<"j","@","x",".","i","o">>,
      summary |-> <<"B","u","i","l","d","s"," ","a","p","p","s">> ]

\* a profile with a name only: the least an upload must carry
BobProfile == [ name |-> <<"B","o","b">> ]

FooProject ==
    [ title |-> <<"F","o","o">>, description |-> <<"A"," ","w","e","b"," ","a","p","p">>,
      technologies |-> << <<"N","o","d","e">> >> ]

BarProject ==
    [ title |-> <<"B","a","r">>, description |-> <<"D","a","t","a"," ","p","i","p","e","l","i","n","e">>,
      technologies |-> << <<"S","Q","L">>, <<"G","o">> >> ]

BackendSkills ==
    [ category |-> <<"B","a","c","k","e","n","d">>, items |-> << <<"N","o","d","e">>, <<"S","Q","L">> >> ]

AcmeExperience ==
    [ role |-> <<"E","n","g","i","n","e","e","r">>, company |-> <<"A","c","m","e">>,
      period |-> <<"2","0","2","0">>, description |-> <<"B","u","i","l","t"," ","t","h","e"," ","s","y","s","t","e","m">> ]

\* experience records with highlights, with an empty highlights list, and with
\* highlights that are not a list; each has a description
LeadExperience ==
    [ AcmeExperience EXCEPT !.role = <<"L","e","a","d">> ]
    @@ [ highlights |-> [ isArray |-> TRUE,
                          v |-> << <<"L","e","d"," ","t","e","a","m">>,
                                   <<"C","u","t"," ","c","o","s","t","s">> >> ] ]
NoHighlightsExperience ==
    AcmeExperience @@ [ highlights |-> [ isArray |-> TRUE, v |-> << >> ] ]
TextHighlightsExperience ==
    AcmeExperience @@ [ highlights |-> [ isArray |-> FALSE, v |-> << >> ] ]

UniEducation ==
    [ degree |-> <<"B","S","c">>, institution |-> <<"N","T","N","U">>, year |-> <<"2","0","1","9">> ]

DocJane == [ profile |-> JaneProfile ]

DocBob ==
    [ profile |-> BobProfile,
      projects |-> [ isArray |-> TRUE, v |-> << FooProject >> ] ]

\* a skill category without an items list: chunkPortfolio raises inside its try
DocNoItems ==
    [ profile |-> JaneProfile,
      skills |-> [ isArray |-> TRUE, v |-> << [ category |-> <<"B","a","c","k","e","n","d">> ] >> ] ]

DocFull ==
    [ profile |-> JaneProfile,
      skills |-> [ isArray |-> TRUE, v |-> << BackendSkills >> ],
      projects |-> [ isArray |-> TRUE, v |-> << FooProject, BarProject >> ],
      experience |-> [ isArray |-> TRUE, v |-> << AcmeExperience >> ],
      interests |-> [ isArray |-> TRUE, v |-> << <<"c","h","e","s","s">>, <<"s","k","i","i","n","g">> >> ] ]

AwsCertification ==
    [ name |-> <<"A","W","S">>, issuer |-> <<"A","m","a","z","o","n">>, year |-> <<"2","0","2","1">> ]

\* certifications and interests, no project, skill or experience
DocCert ==
    [ profile |-> BobProfile,
      certifications |-> [ isArray |-> TRUE, v |-> << AwsCertification >> ],
      interests |-> [ isArray |-> TRUE, v |-> << <<"c","h","e","s","s">> >> ] ]

\* a project without a technologies list: chunkPortfolio raises as well
DocNoTech ==
    [ profile |-> JaneProfile,
      projects |-> [ isArray |-> TRUE,
                     v |-> << [ title |-> <<"F","o","o">>,
                                description |-> <<"A"," ","w","e","b"," ","a","p","p">> ] >> ] ]

\* every section an empty array
DocEmptySections ==
    [ profile |-> BobProfile,
      skills |-> [ isArray |-> TRUE, v |-> << >> ],
      projects |-> [ isArray |-> TRUE, v |-> << >> ],
      experience |-> [ isArray |-> TRUE, v |-> << >> ],
      education |-> [ isArray |-> TRUE, v |-> << >> ],
      certifications |-> [ isArray |-> TRUE, v |-> << >> ],
      interests |-> [ isArray |-> TRUE, v |-> << >> ],
      socials |-> [ isArray |-> TRUE, v |-> << >> ] ]

\* sections that are not arrays (a string, an object), and no profile
DocNotArrays ==
    [ skills |-> [ isArray |-> FALSE, v |-> << >> ],
      interests |-> [ isArray |-> FALSE, v |-> << >> ],
      education |-> [ isArray |-> TRUE, v |-> << UniEducation >> ] ]

GitHubSocial ==
    [ platform |-> <<"G","i","t","H","u","b">>, url |-> <<"g","h",".","i","o">> ]

\* no profile: education and socials only
DocSocial ==
    [ education |-> [ isArray |-> TRUE, v |-> << UniEducation >> ],
      socials |-> [ isArray |-> TRUE, v |-> << GitHubSocial >> ] ]

\* a profile without a name: /api/upload rejects it
DocAnonymous == [ profile |-> [ title |-> <<"D","e","v">> ] ]

DocExperience ==
    [ profile |-> BobProfile,
      experience |-> [ isArray |-> TRUE,
                       v |-> << LeadExperience, AcmeExperience, NoHighlightsExperience,
                                TextHighlightsExperience >> ] ]

\* a profile whose name is the empty string: /api/upload rejects it
DocEmptyName == [ profile |-> [ name |-> << >>, title |-> <<"D","e","v">> ] ]

Json(portfolio) == [ kind |-> "json", v |-> portfolio ]
FileMissing == [ kind |-> "missing" ]
FileGarbage == [ kind |-> "garbage" ]

\* the files the server may start on, and the documents an admin uploads
StartupFiles == { FileMissing, Json(DocJane) }
UploadDocuments == { DocJane, DocBob }
RetrieveStartupFiles == { FileGarbage, Json(DocBob), Json(DocFull) }
FallbackStartupFiles == { Json(DocBob), Json(DocFull), Json(DocCert) }
ChunkStartupFiles ==
    { FileMissing, FileGarbage, Json(DocJane), Json(DocBob), Json(DocCert), Json(DocFull), Json(DocExperience),
      Json(DocNoItems), Json(DocNoTech), Json(DocEmptySections), Json(DocNotArrays),
      Json(DocSocial), Json([ skills |-> [ isArray |-> FALSE, v |-> << >> ] ]) }
-----------------------------------------------------------------------------
(* Inputs: chat messages, embedding vectors, completion texts *)

Str(s) == [ kind |-> "string", v |-> s ]
Undefined == [ kind |-> "undefined" ]
Null == [ kind |-> "null" ]
Vector(v) == [ kind |-> "vector", v |-> v ]

q_who == <<"W","h","o"," ","a","r","e"," ","y","o","u">>
q_hi == <<"h","i">>
q_projects == <<"a","b","o","u","t"," ","y","o","u","r"," ","p","r","o","j","e","c","t","s">>
q_many == <<"p","r","o","j","e","c","t"," ","s","k","i","l","l"," ","w","o","r","k"," ","d","e","g","r","e","e"," ","h","o","b","b","y"," ","n","a","m","e">>

q_job == <<"m","y"," ","j","o","b">>
q_credential == <<"a","n","y"," ","c","r","e","d","e","n","t","i","a","l">>
q_fun == <<"f","u","n">>
q_twice == <<"P","r","o","j","e","c","t"," ","p","r","o","j","e","c","t","s">>
q_tech == <<"n","e","w"," ","T","e","c","h","n","o","l","o","g","y">>
q_know == <<"K","n","o","w"," ","S","Q","L">>

\* req.body.message: strings, the empty string, a missing field, a number
Queries == { q_who, q_hi }
RetrieveQueries == { q_who, q_hi, q_projects, q_many }
FallbackQueries ==
    { q_who, q_hi, q_many, q_job, q_credential, q_fun, q_know, q_twice, q_tech }
NotAString == [ kind |-> "number" ]
InvalidMessages == { Str(<< >>), Undefined, NotAString }

\* the vectors the embedding capability answers with, for chunks and for
\* queries
Vectors == { << 1, 0 >>, << 0, 1 >> }
QueryVectors == { << 1, 0 >> }
CosineVectors ==
    { << >>, << 0, 0 >>, << 1, 0 >>, << 1, 1 >>, << 2, -3 >>, << -2, 1, 2 >> }
RetrieveQueryVectors == { << 1, 0 >>, << 1, 1 >>, << 1, 0, 0 >> }

\* the texts the completion capability answers with
Completions == { <<"J","a","n","e"," ","b","u","i","l","d","s"," ","a","p","p","s",".">> }
-----------------------------------------------------------------------------
(* rag/embed.js *)

\* chunks.map(chunk => ({...chunk, embedding: null}))
absentRecords(chunks) ==
    [ i \in 1 .. Len(chunks) |->
        [ id |-> chunks[i].id, type |-> chunks[i].type, text |-> chunks[i].text,
          embedding |-> Null ] ]

\* what Promise.all resolves to: the records in the order of chunks, whatever
\* order the calls settled in
vectorRecords(chunks, vecs) ==
    [ i \in 1 .. Len(chunks) |->
        [ id |-> chunks[i].id, type |-> chunks[i].type, text |-> chunks[i].text,
          embedding |-> Vector(vecs[i]) ] ]

\* the chunk part of a cache
chunksOf(cache) ==
    [ i \in 1 .. Len(cache) |->
        [ id |-> cache[i].id, type |-> cache[i].type, text |-> cache[i].text ] ]

RECURSIVE SumTo(_, _)
SumTo(f, n) == IF n = 0 THEN 0 ELSE f[n] + SumTo(f, n - 1)

dotProduct(a, b) == SumTo([ i \in 1 .. Len(a) |-> a[i] * b[i] ], Len(a))

\* A score is the real number num / sqrt(den2): the cosine of two vectors is
\* dotProduct / sqrt(normA * normB), a keyword score n is n / sqrt(1).  For
\* the vectors of this model two cosines are equal as reals only when they
\* come from the same dotProduct, normA and normB, so the floating-point
\* values compare as the reals do.
Score(num, den2) == [ num |-> num, den2 |-> den2 ]
Zero == Score(0, 1)

\* A variant that compares vectors of different lengths on their common prefix
cosinePrefix(vecA, vecB) ==
    IF vecA.kind # "vector" \/ vecB.kind # "vector" THEN Zero
    ELSE LET n == Min(Len(vecA.v), Len(vecB.v))
             a == SubSeq(vecA.v, 1, n)
             b == SubSeq(vecB.v, 1, n)
             normA == dotProduct(a, a)
             normB == dotProduct(b, b)
         IN  IF normA = 0 \/ normB = 0 THEN Zero
             ELSE Score(dotProduct(a, b), normA * normB)

cosineSimilarity(vecA, vecB) ==
    IF vecA.kind # "vector" \/ vecB.kind # "vector" THEN Zero
    ELSE IF Len(vecA.v) # Len(vecB.v) THEN Zero
    ELSE LET normA == dotProduct(vecA.v, vecA.v)
             normB == dotProduct(vecB.v, vecB.v)
         IN  IF normA = 0 \/ normB = 0 THEN Zero
             ELSE Score(dotProduct(vecA.v, vecB.v), normA * normB)

Abs(x) == IF x < 0 THEN 0 - x ELSE x

\* a.score > b.score
Greater(a, b) == a.num * Abs(a.num) * b.den2 > b.num * Abs(b.num) * a.den2

-----------------------------------------------------------------------------
(* rag/retriever.js *)

TOP_K == 5

\* scored.sort((a, b) => b.score - a.score): Array.prototype.sort is stable, so
\* the result is the one descending order that keeps equal scores in place
\* A variant of the insertion that puts x before the elements of its score,
\* as a sort that is not stable may
RECURSIVE insertBeforeEqual(_, _)
insertBeforeEqual(sorted, x) ==
    IF Len(sorted) = 0 THEN << x >>
    ELSE IF ~Greater(sorted[1].score, x.score) THEN << x >> \o sorted
    ELSE << sorted[1] >> \o insertBeforeEqual(Tail(sorted), x)

RECURSIVE insertByScore(_, _)
insertByScore(sorted, x) ==
    IF Len(sorted) = 0 THEN << x >>
    ELSE IF Greater(x.score, sorted[1].score) THEN << x >> \o sorted
    ELSE << sorted[1] >> \o insertByScore(Tail(sorted), x)

RECURSIVE sortByScore(_)
sortByScore(scored) ==
    IF Len(scored) = 0 THEN << >>
    ELSE insertByScore(sortByScore(SubSeq(scored, 1, Len(scored) - 1)),
                       scored[Len(scored)])

\* A variant of slice that keeps every element
sliceAll(arr, n) == arr

slice(arr, n) == SubSeq(arr, 1, Min(n, Len(arr)))

\* cache.some(chunk => chunk.embedding !== null)
hasEmbeddings(cache) == \E i \in 1 .. Len(cache) : cache[i].embedding.kind # "null"

retrieveByVector(queryEmbedding, cache) ==
    slice(sortByScore([ i \in 1 .. Len(cache) |->
                          [ text |-> cache[i].text, type |-> cache[i].type,
                            score |-> cosineSimilarity(queryEmbedding,
                                                       cache[i].embedding) ] ]),
          TOP_K)

\* query.toLowerCase().split(/\s+/).filter(w => w.length > 2)
queryWords(query) ==
    LET words == splitWhitespace(toLowerCase(query))
    IN  SelectSeqIdx(words, { i \in 1 .. Len(words) : Len(words[i]) > 2 })

\* a variant whose bonus for a keyword is 1
keywordScoreBonusOne(words, chunk) ==
    LET textLower == toLowerCase(chunk.text)
        textHits == Cardinality({ i \in 1 .. Len(words) : includes(textLower, words[i]) })
        keywords == IF chunk.type \in DOMAIN typeKeywords
                    THEN typeKeywords[chunk.type] ELSE << >>
        typeHits == Cardinality({ k \in 1 .. Len(keywords) :
                        \E i \in 1 .. Len(words) :
                            \/ includes(words[i], keywords[k])
                            \/ includes(keywords[k], words[i]) })
    IN  textHits + typeHits

keywordScore(words, chunk) ==
    LET textLower == toLowerCase(chunk.text)
        textHits == Cardinality({ i \in 1 .. Len(words) : includes(textLower, words[i]) })
        keywords == IF chunk.type \in DOMAIN typeKeywords
                    THEN typeKeywords[chunk.type] ELSE << >>
        typeHits == Cardinality({ k \in 1 .. Len(keywords) :
                        \E i \in 1 .. Len(words) :
                            \/ includes(words[i], keywords[k])
                            \/ includes(keywords[k], words[i]) })
    IN  textHits + 2 * typeHits

\* a variant that always returns the records that scored above zero
retrieveRelevantOnly(query, cache) ==
    LET words == queryWords(query)
        scored == sortByScore([ i \in 1 .. Len(cache) |->
                     [ text |-> cache[i].text, type |-> cache[i].type,
                       score |-> Score(keywordScore(words, cache[i]), 1) ] ])
        relevant == SelectSeqIdx(scored, { i \in 1 .. Len(scored) : scored[i].score.num > 0 })
    IN  slice(relevant, TOP_K)

retrieveByKeyword(query, cache) ==
    LET words == queryWords(query)
        scored == sortByScore([ i \in 1 .. Len(cache) |->
                     [ text |-> cache[i].text, type |-> cache[i].type,
                       score |-> Score(keywordScore(words, cache[i]), 1) ] ])
        relevant == SelectSeqIdx(scored, { i \in 1 .. Len(scored) : scored[i].score.num > 0 })
    IN  IF Len(relevant) >= TOP_K THEN slice(relevant, TOP_K)
        ELSE slice(scored, TOP_K)

\* a variant in which the sort is applied to the cache array itself
cacheSortedInPlace(cache, query) ==
    LET words == queryWords(query)
        sorted == sortByScore([ i \in 1 .. Len(cache) |->
                     [ chunk |-> cache[i],
                       score |-> Score(keywordScore(words, cache[i]), 1) ] ])
    IN  [ i \in 1 .. Len(cache) |-> sorted[i].chunk ]

\* the cache array after a retrieval has run on it: cache.map builds a new
\* array, scored, and sort, filter and slice work on that array
cacheAfterRetrieve(cache, query) == cache

\* a variant without the fallback to keyword matching
retrieveVectorOnly(query, cache, queryEmbedding) ==
    IF queryEmbedding.kind # "vector" THEN << >>
    ELSE retrieveByVector(queryEmbedding, cache)

\* retrieveByEmbedding once generateQueryEmbedding has settled
retrieveByEmbedding(query, cache, queryEmbedding) ==
    IF queryEmbedding.kind # "vector" THEN retrieveByKeyword(query, cache)
    ELSE retrieveByVector(queryEmbedding, cache)

-----------------------------------------------------------------------------
(* rag/llm.js *)

\* chunks.find(c => c.type === type)
HasType(chunks, type) == \E i \in 1 .. Len(chunks) : chunks[i].type = type
find(chunks, type) ==
    chunks[CHOOSE i \in 1 .. Len(chunks) :
               /\ chunks[i].type = type
               /\ \A j \in 1 .. (i - 1) : chunks[j].type # type]

\* A variant of the intent detection that settles on the first topic whose
\* keyword occurs, and answers generically when chunks has none of its type
fallbackFirstKeyword(query, chunks) ==
    LET queryLower == toLowerCase(query)
        has(k) == includes(queryLower, k)
        wrap(type, tpl) == IF HasType(chunks, type) THEN tpl \o find(chunks, type).text
                           ELSE tpl_Generic \o chunks[1].text
    IN  IF has(kw_project) THEN wrap("project", tpl_Project)
        ELSE IF has(kw_skill) \/ has(kw_know) \/ has(kw_technology)
             THEN wrap("skill", tpl_Skills)
        ELSE IF has(kw_experience) \/ has(kw_work) \/ has(kw_job)
             THEN wrap("experience", tpl_Experience)
        ELSE IF has(kw_who) \/ has(kw_about) \/ has(kw_name)
             THEN wrap("profile", << >>)
        ELSE IF has(kw_certif) \/ has(kw_credential) \/ has(kw_qualified)
             THEN wrap("certification", tpl_Certifications)
        ELSE IF has(kw_interest) \/ has(kw_hobby) \/ has(kw_hobbies) \/ has(kw_fun)
             THEN wrap("interests", << >>)
        ELSE tpl_Generic \o chunks[1].text

\* the intent detection of generateFallbackResponse, for chunks.length > 0
fallbackTemplate(query, chunks) ==
    LET queryLower == toLowerCase(query)
        has(k) == includes(queryLower, k)
    IN  IF has(kw_project) /\ HasType(chunks, "project")
             THEN tpl_Project \o find(chunks, "project").text
        ELSE IF (has(kw_skill) \/ has(kw_know) \/ has(kw_technology))
                /\ HasType(chunks, "skill")
             THEN tpl_Skills \o find(chunks, "skill").text
        ELSE IF (has(kw_experience) \/ has(kw_work) \/ has(kw_job))
                /\ HasType(chunks, "experience")
             THEN tpl_Experience \o find(chunks, "experience").text
        ELSE IF (has(kw_who) \/ has(kw_about) \/ has(kw_name))
                /\ HasType(chunks, "profile")
             THEN find(chunks, "profile").text
        ELSE IF (has(kw_certif) \/ has(kw_credential) \/ has(kw_qualified))
                /\ HasType(chunks, "certification")
             THEN tpl_Certifications \o find(chunks, "certification").text
        ELSE IF (has(kw_interest) \/ has(kw_hobby) \/ has(kw_hobbies) \/ has(kw_fun))
                /\ HasType(chunks, "interests")
             THEN find(chunks, "interests").text
        ELSE tpl_Generic \o chunks[1].text

\* A variant without the chunks.length === 0 check
fallbackWithoutCheck(query, chunks) ==
    IF Len(chunks) = 0 THEN tpl_Generic ELSE fallbackTemplate(query, chunks)

generateFallbackResponse(query, chunks) ==
    IF Len(chunks) = 0 THEN msg_NotEnough ELSE fallbackTemplate(query, chunks)

-----------------------------------------------------------------------------
(* The Number that cosineSimilarity returns.  dotProduct, normA and normB    *)
(* are sums of products of small integers and exact; Math.sqrt, * and / are  *)
(* the IEEE 754 binary64 operations, each rounding its exact result to the   *)
(* nearest 53-bit significand, ties to even.  A natural number is kept in    *)
(* limbs of 15 bits, least significant first, wide enough for the 106-bit    *)
(* products of two significands.                                             *)

LimbBits == 15
LimbBase == 2 ^ LimbBits
LimbCount == 8
Precision == 53

Limb == 1 .. LimbCount

\* the element of a one-element set; { F(v) : v \in { e } } evaluates e once
Only(S) == CHOOSE r \in S : TRUE

\* n < 2^31 in limbs
Big(n) ==
    [ i \in Limb |-> IF i = 1 THEN n % LimbBase
                     ELSE IF i = 2 THEN (n \div LimbBase) % LimbBase
                     ELSE IF i = 3 THEN n \div (LimbBase * LimbBase)
                     ELSE 0 ]

BigZero == Big(0)
BigOne == Big(1)

\* the number of bits of n < 2^31
RECURSIVE BitLength(_)
BitLength(n) == IF n = 0 THEN 0 ELSE 1 + BitLength(n \div 2)

LimbAt(a, i) == IF i \in Limb THEN a[i] ELSE 0

\* a * 2^k
ShiftLeft(a, k) ==
    LET q == k \div LimbBits
        r == k % LimbBits
    IN  [ i \in Limb |-> ((LimbAt(a, i - q) * (2 ^ r)) % LimbBase)
                         + ((LimbAt(a, i - q - 1) * (2 ^ r)) \div LimbBase) ]

\* floor(a / 2^k)
ShiftRight(a, k) ==
    LET q == k \div LimbBits
        r == k % LimbBits
    IN  [ i \in Limb |-> (LimbAt(a, i + q) \div (2 ^ r))
                         + ((LimbAt(a, i + q + 1) % (2 ^ r)) * (2 ^ (LimbBits - r))) ]

Pow2(k) == ShiftLeft(BigOne, k)

Less(a, b) ==
    LET differ == { i \in Limb : a[i] # b[i] }
    IN  /\ differ # {}
        /\ LET top == CHOOSE i \in differ : \A j \in differ : j <= i
           IN  a[top] < b[top]

RECURSIVE AddFrom(_, _, _, _, _)
AddFrom(a, b, i, carry, acc) ==
    IF i > LimbCount THEN acc
    ELSE Only({ AddFrom(a, b, i + 1, sum \div LimbBase,
                                   Append(acc, sum % LimbBase)) :
              sum \in { a[i] + b[i] + carry } })

Add(a, b) == Only({ Only({ AddFrom(x, y, 1, 0, << >>) : y \in { b } }) : x \in { a } })

\* a - b, for b <= a
RECURSIVE SubFrom(_, _, _, _, _)
SubFrom(a, b, i, borrow, acc) ==
    IF i > LimbCount THEN acc
    ELSE Only({ IF diff < 0 THEN SubFrom(a, b, i + 1, 1, Append(acc, diff + LimbBase))
                  ELSE SubFrom(a, b, i + 1, 0, Append(acc, diff)) :
              diff \in { a[i] - b[i] - borrow } })

Sub(a, b) == Only({ Only({ SubFrom(x, y, 1, 0, << >>) : y \in { b } }) : x \in { a } })

IsOdd(a) == a[1] % 2 = 1

\* a * d for one limb d
RECURSIVE MulLimbFrom(_, _, _, _, _)
MulLimbFrom(a, d, i, carry, acc) ==
    IF i > LimbCount THEN acc
    ELSE Only({ MulLimbFrom(a, d, i + 1, p \div LimbBase,
                                     Append(acc, p % LimbBase)) :
              p \in { a[i] * d + carry } })

\* a * b, limb by limb of b
RECURSIVE MulFrom(_, _, _, _)
MulFrom(a, b, j, acc) ==
    IF j > LimbCount THEN acc
    ELSE Only({ MulFrom(a, b, j + 1, sum) :
              sum \in { Add(acc, ShiftLeft(MulLimbFrom(a, b[j], 1, 0, << >>), (j - 1) * LimbBits)) } })

Mul(a, b) == Only({ Only({ MulFrom(x, y, 1, BigZero) : y \in { b } }) : x \in { a } })

\* one bit of the square root: st.res and st.x are the root and the
\* remainder so far, st.bit the power of 4 tried
SqrtStep(st) ==
    Only({ IF Less(st.x, t)
             THEN [ x |-> st.x, res |-> ShiftRight(st.res, 1), bit |-> ShiftRight(st.bit, 2) ]
             ELSE [ x |-> Sub(st.x, t), res |-> Add(ShiftRight(st.res, 1), st.bit),
                    bit |-> ShiftRight(st.bit, 2) ] :
         t \in { Add(st.res, st.bit) } })

RECURSIVE SqrtSteps(_, _)
SqrtSteps(n, st) ==
    IF n = 0 THEN st
    ELSE IF n = 1 THEN SqrtStep(st)
    ELSE Only({ SqrtSteps(n - (n \div 2), half) : half \in { SqrtSteps(n \div 2, st) } })

\* one bit of the quotient: st.x is the remainder so far, st.t the divisor
\* times st.bit
DivStep(st) ==
    IF Less(st.x, st.t)
    THEN [ x |-> st.x, t |-> ShiftRight(st.t, 1), bit |-> ShiftRight(st.bit, 1), q |-> st.q ]
    ELSE [ x |-> Sub(st.x, st.t), t |-> ShiftRight(st.t, 1),
           bit |-> ShiftRight(st.bit, 1), q |-> Add(st.q, st.bit) ]

RECURSIVE DivSteps(_, _)
DivSteps(n, st) ==
    IF n = 0 THEN st
    ELSE IF n = 1 THEN Only({ DivStep(s) : s \in { st } })
    ELSE Only({ DivSteps(n - (n \div 2), half) : half \in { DivSteps(n \div 2, st) } })

\* a Number: 0, or (-1)^neg * m * 2^e with 2^52 <= m < 2^53
NumberZero == [ zero |-> TRUE, neg |-> FALSE, m |-> BigZero, e |-> 0 ]
Number(neg, m, e) ==
    IF m = Pow2(Precision)
    THEN [ zero |-> FALSE, neg |-> neg, m |-> Pow2(Precision - 1), e |-> e + 1 ]
    ELSE [ zero |-> FALSE, neg |-> neg, m |-> m, e |-> e ]
NumberOne == Number(FALSE, Pow2(Precision - 1), 1 - Precision)

\* Math.sqrt(n) for an integer n > 0: n * 4^t is brought into [2^104, 2^106),
\* the floor of its root has 53 bits and is rounded up when the root is
\* nearer to the next integer, that is when the remainder exceeds it
sqrt(n) ==
    LET t == (2 * Precision - BitLength(n)) \div 2
    IN  Only({ Number(FALSE,
                               IF Less(s.res, s.x) THEN Add(s.res, BigOne) ELSE s.res,
                               0 - t) :
             s \in { SqrtSteps(Precision,
                       [ x |-> ShiftLeft(Big(n), 2 * t), res |-> BigZero,
                         bit |-> Pow2(2 * Precision - 2) ]) } })

\* a * b for positive Numbers
times(a, b) ==
    Only({ LET k == IF Less(product, Pow2(2 * Precision - 1)) THEN Precision - 1
                      ELSE Precision
             IN  Only({ Only({ Number(FALSE,
                                          IF \/ Less(Pow2(k - 1), rem)
                                             \/ (rem = Pow2(k - 1) /\ IsOdd(m))
                                          THEN Add(m, BigOne) ELSE m,
                                          a.e + b.e + k) :
                               rem \in { Sub(product, ShiftLeft(m, k)) } }) :
                      m \in { ShiftRight(product, k) } }) :
         product \in { Mul(a.m, b.m) } })

\* n / b for an integer n > 0 and a positive Number b: n * 2^j is brought
\* into [b.m * 2^52, b.m * 2^53), the quotient has 53 bits and is rounded by
\* the remainder
over(n, b) ==
    IF n = 0 THEN NumberZero
    ELSE LET abs == IF n < 0 THEN 0 - n ELSE n
             j0 == 2 * Precision - 1 - BitLength(abs)
             t == ShiftLeft(b.m, Precision - 1)
             j == IF Less(ShiftLeft(Big(abs), j0), t) THEN j0 + 1 ELSE j0
         IN  Only({ Only({ Number(n < 0,
                                      IF \/ Less(b.m, twice)
                                         \/ (twice = b.m /\ IsOdd(d.q))
                                      THEN Add(d.q, BigOne) ELSE d.q,
                                      0 - j - b.e) :
                           twice \in { ShiftLeft(d.x, 1) } }) :
                  d \in { DivSteps(Precision,
                           [ x |-> ShiftLeft(Big(abs), j), t |-> t,
                             bit |-> Pow2(Precision - 1), q |-> BigZero ]) } })

\* a variant that divides by the norm of the first vector twice
cosineFirstNorm(vecA, vecB) ==
    IF vecA.kind # "vector" \/ vecB.kind # "vector" THEN NumberZero
    ELSE IF Len(vecA.v) # Len(vecB.v) THEN NumberZero
    ELSE LET normA == dotProduct(vecA.v, vecA.v)
             normB == dotProduct(vecB.v, vecB.v)
         IN  IF normA = 0 \/ normB = 0 THEN NumberZero
             ELSE Only({ Only({ over(dotProduct(vecA.v, vecB.v), norms) :
                                norms \in { times(rootA, rootA) } }) :
                         rootA \in { sqrt(normA) } })

\* cosineSimilarity as the Number it returns
cosineNumber(vecA, vecB) ==
    IF vecA.kind # "vector" \/ vecB.kind # "vector" THEN NumberZero
    ELSE IF Len(vecA.v) # Len(vecB.v) THEN NumberZero
    ELSE LET normA == dotProduct(vecA.v, vecA.v)
             normB == dotProduct(vecB.v, vecB.v)
         IN  IF normA = 0 \/ normB = 0 THEN NumberZero
             ELSE Only({ Only({ Only({ over(dotProduct(vecA.v, vecB.v), norms) :
                                         norms \in { times(rootA, rootB) } }) :
                                rootB \in { sqrt(normB) } }) :
                       rootA \in { sqrt(normA) } })

-----------------------------------------------------------------------------
(* public/js/chatbox.js *)

\* the number of calls of sendMessage that are followed
MaxSends == 3
Sends == 1 .. MaxSends

\* the values Date.now() returns
Clock == { 1, 2 }

msg_Sorry == <<"I","'","m"," ","s","o","r","r","y",","," ","I"," ","c","o","u","l","d","n","'","t"," ","p","r","o","c","e","s","s"," ","t","h","a","t"," ","q","u","e","s","t","i","o","n","."," ","P","l","e","a","s","e"," ","t","r","y"," ","a","g","a","i","n",".">>
msg_Trouble == <<"I","'","m"," ","h","a","v","i","n","g"," ","t","r","o","u","b","l","e"," ","c","o","n","n","e","c","t","i","n","g","."," ","P","l","e","a","s","e"," ","t","r","y"," ","a","g","a","i","n"," ","l","a","t","e","r",".">>

\* String.prototype.trim
RECURSIVE trimStart(_)
trimStart(s) ==
    IF Len(s) = 0 THEN s
    ELSE IF IsSpace(s[1]) THEN trimStart(Tail(s))
    ELSE s

RECURSIVE trimEnd(_)
trimEnd(s) ==
    IF Len(s) = 0 THEN s
    ELSE IF IsSpace(s[Len(s)]) THEN trimEnd(SubSeq(s, 1, Len(s) - 1))
    ELSE s

trim(s) == trimEnd(trimStart(s))

\* an element without an id attribute
NoId == [ kind |-> "none" ]
\* `loading-${Date.now()}`
LoadingId(t) == [ kind |-> "loading", t |-> t ]

\* addMessage(text, type): a div of class "message <type>" with the text
addMessage(messages, text, type) ==
    Append(messages, [ type |-> type, id |-> NoId, spinner |-> FALSE, text |-> text ])

\* addLoadingMessage(): a div of class "message bot" with the spinner
addLoadingMessage(messages, t) ==
    Append(messages, [ type |-> "bot", id |-> LoadingId(t), spinner |-> TRUE, text |-> << >> ])

\* A variant of removeMessage that leaves the element in place
removeNothing(messages, id) == messages

\* removeMessage(id): document.getElementById(id) is the first element with
\* that id; it is removed if there is one
removeMessage(messages, id) ==
    IF \E i \in 1 .. Len(messages) : messages[i].id = id
    THEN LET first == CHOOSE i \in 1 .. Len(messages) :
                          /\ messages[i].id = id
                          /\ \A j \in 1 .. (i - 1) : messages[j].id # id
         IN  SubSeq(messages, 1, first - 1) \o SubSeq(messages, first + 1, Len(messages))
    ELSE messages

\* the catch block of sendMessage
caught(messages, id) == addMessage(removeMessage(messages, id), msg_Trouble, "bot")

SendIdle == [ pc |-> "idle", message |-> << >>, loadingId |-> NoId, data |-> [ kind |-> "none" ] ]

BrowserIdle ==
    /\ isProcessing = FALSE
    /\ chatboxInput = << >>
    /\ chatboxMessages = << >>
    /\ now = 1
    /\ sending = [ c \in Sends |-> SendIdle ]

\* the user edits the input field
Input(value) ==
    /\ chatboxInput # value
    /\ chatboxInput' = value
    /\ UNCHANGED << server, themes, isProcessing, chatboxMessages, now, sending >>

\* A click on the send button or the Enter key: sendMessage up to its await
SendMessage(c, t) ==
    /\ sending[c].pc = "idle"
    /\ \A b \in Sends : b < c => sending[b].pc # "idle"
    /\ t >= now
    /\ now' = t
    /\ LET message == trim(chatboxInput)
       IN  IF isProcessing \/ Len(message) = 0
           THEN /\ sending' = [ sending EXCEPT ![c].pc = "returned" ]
                /\ UNCHANGED << isProcessing, chatboxInput, chatboxMessages >>
           ELSE /\ chatboxInput' = << >>
                /\ chatboxMessages' =
                       addLoadingMessage(addMessage(chatboxMessages, message, "user"), t)
                /\ isProcessing' = TRUE
                /\ sending' = [ sending EXCEPT ![c] =
                       [ @ EXCEPT !.pc = "fetch", !.message = message,
                           !.loadingId = LoadingId(t) ] ]
    /\ UNCHANGED << server, themes >>

\* fetch('/api/chat') settles: it rejects, or resolves with a response
FetchSettle(c, response) ==
    /\ sending[c].pc = "fetch"
    /\ LET id == sending[c].loadingId
       IN  IF response.kind = "rejects"
           THEN /\ chatboxMessages' = caught(chatboxMessages, id)
                /\ isProcessing' = FALSE
                /\ sending' = [ sending EXCEPT ![c].pc = "done" ]
           ELSE IF ~response.ok
           THEN /\ chatboxMessages' = caught(removeMessage(chatboxMessages, id), id)
                /\ isProcessing' = FALSE
                /\ sending' = [ sending EXCEPT ![c].pc = "done" ]
           ELSE /\ chatboxMessages' = removeMessage(chatboxMessages, id)
                /\ isProcessing' = isProcessing
                /\ sending' = [ sending EXCEPT ![c] =
                       [ @ EXCEPT !.pc = "json", !.data = response.body ] ]
    /\ UNCHANGED << server, themes, chatboxInput, now >>

\* response.json() settles: it rejects, or resolves with the parsed body
JsonSettle(c) ==
    /\ sending[c].pc = "json"
    /\ LET id == sending[c].loadingId
           data == sending[c].data
       IN  chatboxMessages' =
               IF data.kind \in { "invalid", "null" }
               THEN \* the rejection, or the TypeError of data.response
                    caught(chatboxMessages, id)
               ELSE IF data.response.kind = "string" /\ Len(data.response.v) > 0
               THEN addMessage(chatboxMessages, data.response.v, "bot")
               ELSE addMessage(chatboxMessages, msg_Sorry, "bot")
    /\ isProcessing' = FALSE
    /\ sending' = [ sending EXCEPT ![c].pc = "done" ]
    /\ UNCHANGED << server, themes, chatboxInput, now >>

-----------------------------------------------------------------------------
(* POST /api/theme-analytics *)

\* the number of requests whose handlers may overlap
ThemeRequests == { 1, 2 }

ThemeNames == { "minimal", "modern", "elegant", "retro" }

\* !theme || ![...].includes(theme)
invalidTheme(theme) == theme.kind # "string" \/ theme.v \notin ThemeNames

\* A variant that refuses only a missing theme
invalidIfThemeMissing(theme) == theme.kind # "string"

\* the values of the stored object: a number (the old format) or an object
Count(n) == [ kind |-> "number", v |-> n ]
Counters(value) == [ kind |-> "object", v |-> value ]

defaultAnalytics == [ t \in ThemeNames |-> [ switches |-> 0, likes |-> 0 ] ]

\* { ...counters, ...value }
spread(counters, value) ==
    [ f \in DOMAIN counters \cup DOMAIN value |->
        IF f \in DOMAIN value THEN value[f] ELSE counters[f] ]

\* the defaults with the entries of the parsed file laid over them; a file
\* that is missing or does not parse leaves the defaults
migrate(file) ==
    IF file.kind # "json" THEN defaultAnalytics
    ELSE [ t \in ThemeNames |->
             IF t \notin DOMAIN file.v THEN defaultAnalytics[t]
             ELSE IF file.v[t].kind = "number"
                  THEN [ defaultAnalytics[t] EXCEPT !.switches = file.v[t].v ]
                  ELSE spread(defaultAnalytics[t], file.v[t].v) ]

\* analytics[theme].switches++ or analytics[theme].likes++
increment(analytics, theme, action) ==
    IF action = Str("switch")
    THEN [ analytics EXCEPT ![theme].switches = @ + 1 ]
    ELSE IF action = Str("like")
    THEN [ analytics EXCEPT ![theme].likes = @ + 1 ]
    ELSE analytics

\* JSON.stringify(analytics), as the file content
stringify(analytics) ==
    [ kind |-> "json", v |-> [ t \in DOMAIN analytics |-> Counters(analytics[t]) ] ]

ThemeIdle ==
    [ pc |-> "idle", theme |-> Undefined, action |-> Undefined,
      analytics |-> defaultAnalytics, status |-> 0 ]

ThemesOver(files) ==
    /\ analyticsFile \in files
    /\ analyticsBefore = analyticsFile
    /\ themeRequest = [ h \in ThemeRequests |-> ThemeIdle ]

ThemesIdle == ThemesOver({ [ kind |-> "missing" ] })

\* the handler up to await readFile; action defaults to 'switch'
ThemeRequest(h, body) ==
    /\ themeRequest[h].pc = "idle"
    /\ themeRequest' = [ themeRequest EXCEPT ![h] =
           IF invalidTheme(body.theme)
           THEN [ @ EXCEPT !.pc = "done", !.theme = body.theme, !.status = 400 ]
           ELSE [ @ EXCEPT !.pc = "read", !.theme = body.theme,
                    !.action = IF body.action = Undefined THEN Str("switch")
                               ELSE body.action ] ]
    /\ UNCHANGED << server, browser, analyticsFile, analyticsBefore >>

\* readFile settles; the counter is raised and writeFile is called
ThemeRead(h) ==
    /\ themeRequest[h].pc = "read"
    /\ themeRequest' = [ themeRequest EXCEPT ![h] =
           [ @ EXCEPT !.pc = "write",
               !.analytics = increment(migrate(analyticsFile), themeRequest[h].theme.v,
                             themeRequest[h].action) ] ]
    /\ UNCHANGED << server, browser, analyticsFile, analyticsBefore >>

\* writeFile settles
ThemeWrite(h, ok) ==
    /\ themeRequest[h].pc = "write"
    /\ IF ok
       THEN /\ analyticsFile' = stringify(themeRequest[h].analytics)
            /\ themeRequest' = [ themeRequest EXCEPT ![h] =
                   [ @ EXCEPT !.pc = "done", !.status = 200 ] ]
       ELSE /\ analyticsFile' = analyticsFile
            /\ themeRequest' = [ themeRequest EXCEPT ![h] =
                   [ @ EXCEPT !.pc = "done", !.status = 500 ] ]
    /\ UNCHANGED << server, browser, analyticsBefore >>

-----------------------------------------------------------------------------
(* The decisions of the code that the actions below take *)

\* initializeEmbeddings: the embedding calls are issued only past the
\* isProviderConfigured() and supportsEmbeddings() checks
embedsChunks(isConfigured, supports) == isConfigured /\ supports

\* generateQueryEmbedding: the same two checks
embedsQuery(isConfigured, supports) == isConfigured /\ supports

\* A variant that skips the isProviderConfigured() check of generateResponse
completesAlways(isConfigured) == TRUE

\* generateResponse: the completion call is issued only when configured
completes(isConfigured) == isConfigured

\* A variant that pushes the new records onto the cache instead of assigning
appendOnSuccess(cache, chunks, vecs, pending) ==
    IF pending = {} THEN cache \o vectorRecords(chunks, vecs) ELSE cache

\* embeddingsCache = await Promise.all(embeddingPromises): assigned once, when
\* the last call has settled
publishOnSuccess(cache, chunks, vecs, pending) ==
    IF pending = {} THEN vectorRecords(chunks, vecs) ELSE cache

\* A variant of the catch block that keeps the vectors of the settled calls
partialOnFailure(cache, chunks, vecs, r) ==
    [ i \in 1 .. Len(chunks) |->
        [ id |-> chunks[i].id, type |-> chunks[i].type, text |-> chunks[i].text,
          embedding |-> IF i \in DOMAIN vecs THEN Vector(vecs[i]) ELSE Null ] ]

\* A variant of the catch block that publishes only for the startup rebuild
keepOnUploadFailure(cache, chunks, vecs, r) ==
    IF r = 0 THEN absentRecords(chunks) ELSE cache

\* the catch block of initializeEmbeddings, whichever rebuild r it is
publishOnFailure(cache, chunks, vecs, r) == absentRecords(chunks)

\* A variant that calls getEmbeddingsCache() again after the await
cacheReadAgain(local, current) == current

\* retrieveByEmbedding works on its cache parameter, read before the await
cacheAfterAwait(local, current) == local

\* A variant that answers from the template whatever the call returned
responseFromTemplate(query, chunks, llm) ==
    Str(generateFallbackResponse(query, chunks))

\* generateResponse once the completion call has settled:
\* return response.choices[0].message.content, or the catch block
responseOf(query, chunks, llm) ==
    CASE llm.kind = "ok" -> Str(llm.content)
      [] llm.kind = "nocontent" -> Undefined
      [] OTHER -> Str(generateFallbackResponse(query, chunks))

\* a variant that tests the type only
invalidIfNotString(message) == message.kind # "string"

\* !message || typeof message !== 'string'
invalidMessage(message) == message.kind # "string" \/ Len(message.v) = 0

\* a variant that accepts an empty name
invalidIfNameMissing(jsonData) ==
    \/ "profile" \notin DOMAIN jsonData
    \/ "name" \notin DOMAIN jsonData.profile

\* !jsonData.profile || !jsonData.profile.name
invalidPortfolio(jsonData) ==
    \/ "profile" \notin DOMAIN jsonData
    \/ "name" \notin DOMAIN jsonData.profile
    \/ Len(jsonData.profile.name) = 0

\* credentials.split(':')
RECURSIVE splitFrom(_, _, _, _)
splitFrom(s, i, part, parts) ==
    IF i > Len(s) THEN Append(parts, part)
    ELSE IF s[i] = ":" THEN splitFrom(s, i + 1, << >>, Append(parts, part))
    ELSE splitFrom(s, i + 1, Append(part, s[i]), parts)

split(s) == splitFrom(s, 1, << >>, << >>)

\* process.env.ADMIN_USERNAME || 'admin', process.env.ADMIN_PASSWORD || 'password'
validUsername == <<"a","d","m","i","n">>
validPassword == <<"p","a","s","s","w","o","r","d">>

\* const [username, password] = credentials.split(':')
usernamePassword(credentials) ==
    LET parts == split(credentials)
    IN  << parts[1], IF Len(parts) > 1 THEN Str(parts[2]) ELSE Undefined >>

\* basicAuth calls next(): authorization is the request's header, absent, of
\* another scheme, or 'Basic ' and the base64 text whose decoding is
\* authorization.credentials
basicAuth(authorization) ==
    /\ authorization.kind = "basic"
    /\ usernamePassword(authorization.credentials)[1] = validUsername
    /\ usernamePassword(authorization.credentials)[2] = Str(validPassword)

-----------------------------------------------------------------------------
(* Initial state: startServer has called initializeEmbeddings, which awaits  *)
(* chunkPortfolio; the server listens once that rebuild has returned.        *)

NoReply == [ status |-> 0, response |-> Undefined ]
Reply(status, response) == [ status |-> status, response |-> response ]

Unread == [ kind |-> "unread" ]

\* the locals of a handler that has not started, or has returned
RebuildIdle ==
    [ pc |-> "idle", upload |-> Undefined, doc |-> Unread, chunks |-> << >>,
      pending |-> {}, vecs |-> << >>, reordered |-> FALSE, outcome |-> "none",
      reply |-> 0 ]

\* initializeEmbeddings has returned (and the upload has replied): of the
\* locals only the history is kept, the branch taken and, of the settled
\* calls, their vectors and whether one settled before an earlier chunk's
RebuildDone(r, outcome, vecs, reordered) ==
    [ RebuildIdle EXCEPT !.pc = "done", !.outcome = outcome, !.vecs = vecs,
        !.reordered = reordered, !.reply = IF r = 0 THEN 0 ELSE 200 ]

UploadFailed(status) == [ RebuildIdle EXCEPT !.pc = "done", !.reply = status ]

ChatIdle ==
    [ pc |-> "idle", message |-> Undefined, cache |-> << >>,
      queryEmbedding |-> Null, chunks |-> << >>, mode |-> "none",
      llm |-> [ kind |-> "none" ], fallback |-> FALSE, reply |-> NoReply,
      embedCalls |-> 0, completionCalls |-> 0 ]

InitOver(files, handlers) ==
    /\ configured \in BOOLEAN
    /\ embeddingsSupported \in BOOLEAN
    /\ portfolioFile \in files
    /\ backups = << >>
    /\ embeddingsCache = << >>
    /\ publishedBy = -1
    /\ rebuild = [ r \in handlers |->
                     IF r = 0 THEN [ RebuildIdle EXCEPT !.pc = "chunk" ]
                     ELSE RebuildIdle ]
    /\ chat = ChatIdle
    /\ BrowserIdle
    /\ ThemesIdle

InitWith(files) == InitOver(files, Rebuilds)

listening == rebuild[0].pc = "done"

-----------------------------------------------------------------------------
(* initializeEmbeddings *)

\* chunkPortfolio's readFile settles; the rest runs up to the Promise.all
RebuildRead(r) ==
    /\ rebuild[r].pc = "chunk"
    /\ LET chunks == chunkPortfolio(portfolioFile)
           branch == IF Len(chunks) = 0 THEN "empty"
                     ELSE IF ~configured THEN "unconfigured"
                     ELSE IF ~embedsChunks(configured, embeddingsSupported)
                          THEN "unsupported"
                     ELSE "embed"
       IN  IF branch = "embed"
           THEN /\ rebuild' = [ rebuild EXCEPT ![r] =
                       [ @ EXCEPT !.pc = "embed", !.doc = portfolioFile,
                           !.chunks = chunks, !.pending = 1 .. Len(chunks) ] ]
                /\ UNCHANGED << embeddingsCache, publishedBy >>
           ELSE /\ rebuild' = [ rebuild EXCEPT ![r] = RebuildDone(r, branch, << >>, FALSE) ]
                /\ embeddingsCache' = absentRecords(chunks)
                /\ publishedBy' = r
    /\ UNCHANGED << browser, themes, configured, embeddingsSupported, portfolioFile, backups, chat >>

\* the client.embeddings.create call for chunk i of rebuild r settles
EmbedSettle(r, i, result) ==
    /\ rebuild[r].pc = "embed"
    /\ i \in rebuild[r].pending
    /\ LET rb == rebuild[r]
           pending == rb.pending \ {i}
           vecs == [ j \in DOMAIN rb.vecs \cup {i} |->
                       IF j = i THEN result.v ELSE rb.vecs[j] ]
           reordered == rb.reordered \/ \E j \in pending : j < i
       IN  IF result.kind = "vector"
           THEN /\ rebuild' = [ rebuild EXCEPT ![r] =
                       IF pending = {}
                       THEN RebuildDone(r, "vectors", << >>, reordered)
                       ELSE [ @ EXCEPT !.pending = pending, !.vecs = vecs,
                                !.reordered = reordered ] ]
                /\ embeddingsCache' =
                       publishOnSuccess(embeddingsCache, rb.chunks, vecs, pending)
                /\ publishedBy' = IF pending = {} THEN r ELSE publishedBy
           ELSE \* Promise.all rejects; the calls still pending are not awaited
                /\ rebuild' = [ rebuild EXCEPT ![r] =
                       RebuildDone(r, "failed", rb.vecs, rb.reordered) ]
                /\ embeddingsCache' =
                       publishOnFailure(embeddingsCache, rb.chunks, rb.vecs, r)
                /\ publishedBy' = r
    /\ UNCHANGED << browser, themes, configured, embeddingsSupported, portfolioFile, backups, chat >>

-----------------------------------------------------------------------------
(* POST /api/upload *)

UploadRequest(u, req) ==
    /\ listening
    /\ rebuild[u].pc = "idle"
    /\ \A v \in DOMAIN rebuild : (0 < v /\ v < u) => rebuild[v].pc # "idle"
    /\ LET status == IF ~basicAuth(req.authorization) THEN 401
                     ELSE IF req.body.kind \in { "none", "garbage" } THEN 400
                     ELSE IF req.body.kind = "null" THEN 500
                     ELSE IF invalidPortfolio(req.body.v) THEN 400
                     ELSE 0
       IN  rebuild' = [ rebuild EXCEPT ![u] =
               IF status # 0 THEN UploadFailed(status)
               ELSE [ @ EXCEPT !.upload = req.body.v,
                        !.pc = IF portfolioFile.kind # "missing"
                               THEN "backup" ELSE "write" ] ]
    /\ UNCHANGED << browser, themes, configured, embeddingsSupported, portfolioFile, backups,
                    embeddingsCache, publishedBy, chat >>

\* await copyFile(PORTFOLIO_PATH, backupPath)
UploadBackup(u, ok) ==
    /\ rebuild[u].pc = "backup"
    /\ IF ok
       THEN /\ backups' = Append(backups, portfolioFile)
            /\ rebuild' = [ rebuild EXCEPT ![u].pc = "write" ]
       ELSE /\ backups' = backups
            /\ rebuild' = [ rebuild EXCEPT ![u] = UploadFailed(500) ]
    /\ UNCHANGED << browser, themes, configured, embeddingsSupported, portfolioFile,
                    embeddingsCache, publishedBy, chat >>

\* await writeFile(PORTFOLIO_PATH, ...), then initializeEmbeddings() is called
UploadWrite(u, ok) ==
    /\ rebuild[u].pc = "write"
    /\ IF ok
       THEN /\ portfolioFile' = Json(rebuild[u].upload)
            /\ rebuild' = [ rebuild EXCEPT ![u] = [ RebuildIdle EXCEPT !.pc = "chunk" ] ]
       ELSE /\ portfolioFile' = portfolioFile
            /\ rebuild' = [ rebuild EXCEPT ![u] = UploadFailed(500) ]
    /\ UNCHANGED << browser, themes, configured, embeddingsSupported, backups,
                    embeddingsCache, publishedBy, chat >>

-----------------------------------------------------------------------------
(* POST /api/chat *)

\* generateResponse up to its return or its completion call, entered with the
\* retrieval result
Generate(ch, chunks, mode, queryEmbedding) ==
    LET got == [ ch EXCEPT !.chunks = chunks, !.mode = mode,
                   !.queryEmbedding = queryEmbedding ]
    IN  IF completes(configured)
        THEN [ got EXCEPT !.pc = "complete", !.completionCalls = @ + 1 ]
        ELSE [ got EXCEPT !.pc = "done", !.fallback = TRUE,
                 !.reply = Reply(200, Str(generateFallbackResponse(ch.message.v, chunks))) ]

\* a request arrives; the handler runs to its reply or to its first call
ChatRequest(message) ==
    /\ listening
    /\ chat.pc = "idle"
    /\ LET cache == embeddingsCache
           ch == [ ChatIdle EXCEPT !.message = message, !.cache = cache ]
       IN  chat' =
             IF invalidMessage(message)
             THEN [ ChatIdle EXCEPT !.message = message, !.pc = "done",
                      !.reply = Reply(400, Undefined) ]
             ELSE IF Len(cache) = 0
             THEN Generate(ch, << >>, "empty", Null)
             ELSE IF ~hasEmbeddings(cache)
             THEN Generate(ch, retrieveByKeyword(message.v, cache), "keyword", Null)
             ELSE IF ~embedsQuery(configured, embeddingsSupported)
             THEN Generate(ch, retrieveByEmbedding(message.v, cache, Null),
                           "fallback", Null)
             ELSE [ ch EXCEPT !.pc = "embedQuery", !.embedCalls = @ + 1 ]
    /\ embeddingsCache' =
          IF /\ ~invalidMessage(message)
             /\ Len(embeddingsCache) > 0
             /\ \/ ~hasEmbeddings(embeddingsCache)
                \/ ~embedsQuery(configured, embeddingsSupported)
          THEN cacheAfterRetrieve(embeddingsCache, message.v)
          ELSE embeddingsCache
    /\ UNCHANGED << browser, themes, configured, embeddingsSupported, portfolioFile, backups,
                    publishedBy, rebuild >>

\* the embeddings.create call of generateQueryEmbedding settles
ChatEmbedSettle(result) ==
    /\ chat.pc = "embedQuery"
    /\ LET queryEmbedding == IF result.kind = "vector" THEN result ELSE Null
           cache == cacheAfterAwait(chat.cache, embeddingsCache)
       IN  chat' = Generate(chat,
                       retrieveByEmbedding(chat.message.v, cache, queryEmbedding),
                       IF result.kind = "vector" THEN "vector" ELSE "fallback",
                       queryEmbedding)
    /\ embeddingsCache' =
          IF embeddingsCache = chat.cache
          THEN cacheAfterRetrieve(embeddingsCache, chat.message.v)
          ELSE embeddingsCache
    /\ UNCHANGED << browser, themes, configured, embeddingsSupported, portfolioFile, backups,
                    publishedBy, rebuild >>

\* the chat.completions.create call of generateResponse settles
ChatCompleteSettle(llm) ==
    /\ chat.pc = "complete"
    /\ chat' = [ chat EXCEPT !.pc = "done", !.llm = llm,
                   !.fallback = llm.kind \in { "throws", "nochoices" },
                   !.reply = Reply(200, responseOf(chat.message.v, chat.chunks, llm)) ]
    /\ UNCHANGED << browser, themes, configured, embeddingsSupported, portfolioFile, backups,
                    embeddingsCache, publishedBy, rebuild >>

\* the reply has been sent; the next request finds fresh locals
ChatReturn ==
    /\ chat.pc = "done"
    /\ chat' = ChatIdle
    /\ UNCHANGED << browser, themes, configured, embeddingsSupported, portfolioFile, backups,
                    embeddingsCache, publishedBy, rebuild >>

-----------------------------------------------------------------------------
(* Specifications *)

EmbedResults(vectors) == { Vector(v) : v \in vectors } \cup { [ kind |-> "throws" ] }

CompletionResults ==
    { [ kind |-> "ok", content |-> t ] : t \in Completions }
    \cup { [ kind |-> "throws" ], [ kind |-> "nochoices" ], [ kind |-> "nocontent" ] }

\* the Authorization headers of the requests: none, another scheme, and
\* Basic credentials
NoAuthorization == [ kind |-> "none" ]
Bearer == [ kind |-> "other" ]
Basic(credentials) == [ kind |-> "basic", credentials |-> credentials ]
Admin == Basic(<<"a","d","m","i","n",":","p","a","s","s","w","o","r","d">>)
Authorizations ==
    { NoAuthorization, Bearer, Admin,
      Basic(<<"a","d","m","i","n",":","w","r","o","n","g">>),
      Basic(<<"a","d","m","i","n">>),
      Basic(<<"a","d","m","i","n",":","p","a","s","s","w","o","r","d",":","e","x","t","r","a">>) }

\* the bodies of the uploads: documents, no data, a file that is not JSON, the
\* file 'null', documents without a name
UploadBodies ==
    { Json(d) : d \in UploadDocuments }
    \cup { [ kind |-> "none" ], [ kind |-> "garbage" ], [ kind |-> "null" ],
           Json(DocAnonymous), Json(DocEmptyName), Json(DocSocial) }

UploadRequests ==
    { [ authorization |-> Admin, body |-> b ] : b \in UploadBodies }
    \cup { [ authorization |-> a, body |-> Json(DocBob) ] : a \in Authorizations }

\* The server: the startup rebuild, uploads with their rebuilds, chat requests.
Init == InitWith(StartupFiles)

Next ==
    \/ \E r \in Rebuilds : RebuildRead(r)
    \/ \E r \in Rebuilds, result \in EmbedResults(Vectors) :
           \E i \in rebuild[r].pending : EmbedSettle(r, i, result)
    \/ \E u \in Uploads, req \in UploadRequests : UploadRequest(u, req)
    \/ \E u \in Uploads, ok \in BOOLEAN : UploadBackup(u, ok)
    \/ \E u \in Uploads, ok \in BOOLEAN : UploadWrite(u, ok)
    \/ \E m \in { Str(q) : q \in Queries } \cup InvalidMessages : ChatRequest(m)
    \/ \E result \in EmbedResults(QueryVectors) : ChatEmbedSettle(result)
    \/ \E llm \in CompletionResults : ChatCompleteSettle(llm)
    \/ ChatReturn

Spec == Init /\ [][Next]_vars

\* The retrieval pipeline on larger documents: the startup rebuild and chat
\* requests, no upload.
InitRetrieve == InitWith(RetrieveStartupFiles)

NextRetrieve ==
    \/ RebuildRead(0)
    \/ \E result \in EmbedResults(Vectors) :
           \E i \in rebuild[0].pending : EmbedSettle(0, i, result)
    \/ \E m \in { Str(q) : q \in RetrieveQueries } : ChatRequest(m)
    \/ \E result \in EmbedResults(RetrieveQueryVectors) : ChatEmbedSettle(result)
    \/ \E llm \in CompletionResults : ChatCompleteSettle(llm)
    \/ ChatReturn

SpecRetrieve == InitRetrieve /\ [][NextRetrieve]_vars

\* The responder on more queries and documents: the startup rebuild and chat
\* requests, one answer of the embedding capability.
InitFallback == InitWith(FallbackStartupFiles)

NextFallback ==
    \/ RebuildRead(0)
    \/ \E result \in EmbedResults(QueryVectors) :
           \E i \in rebuild[0].pending : EmbedSettle(0, i, result)
    \/ \E m \in { Str(q) : q \in FallbackQueries } : ChatRequest(m)
    \/ \E result \in EmbedResults(QueryVectors) : ChatEmbedSettle(result)
    \/ \E llm \in CompletionResults : ChatCompleteSettle(llm)
    \/ ChatReturn

SpecFallback == InitFallback /\ [][NextFallback]_vars

\* The chunker on more documents: the startup rebuild on each of them, and
\* chat requests.
InitChunk == InitWith(ChunkStartupFiles)

NextChunk ==
    \/ RebuildRead(0)
    \/ \E result \in EmbedResults(QueryVectors) :
           \E i \in rebuild[0].pending : EmbedSettle(0, i, result)
    \/ \E m \in { Str(q_who), Undefined } : ChatRequest(m)
    \/ \E result \in EmbedResults(QueryVectors) : ChatEmbedSettle(result)
    \/ \E llm \in CompletionResults : ChatCompleteSettle(llm)
    \/ ChatReturn

SpecChunk == InitChunk /\ [][NextChunk]_vars


\* cosineSimilarity on more vectors: the startup rebuild on one document and
\* chat requests, the embedding capability answering with vectors of
\* different lengths, the empty and the zero vector among them.
InitCosine == InitWith({ Json(DocBob) })

NextCosine ==
    \/ RebuildRead(0)
    \/ \E result \in EmbedResults(CosineVectors) :
           \E i \in rebuild[0].pending : EmbedSettle(0, i, result)
    \/ ChatRequest(Str(q_who))
    \/ \E result \in EmbedResults(CosineVectors) : ChatEmbedSettle(result)
    \/ \E llm \in CompletionResults : ChatCompleteSettle(llm)
    \/ ChatReturn

SpecCosine == InitCosine /\ [][NextCosine]_vars

\* Two uploads whose handlers may overlap: the startup rebuild and the
\* uploads of an authenticated admin, no chat.
TwoUploads == { 1, 2 }

InitUploads == InitOver(StartupFiles, { 0 } \cup TwoUploads)

NextUploads ==
    \/ \E r \in { 0 } \cup TwoUploads : RebuildRead(r)
    \/ \E r \in { 0 } \cup TwoUploads, result \in EmbedResults(QueryVectors) :
           \E i \in rebuild[r].pending : EmbedSettle(r, i, result)
    \/ \E u \in TwoUploads, d \in UploadDocuments :
           UploadRequest(u, [ authorization |-> Admin, body |-> Json(d) ])
    \/ \E u \in TwoUploads, ok \in BOOLEAN : UploadBackup(u, ok)
    \/ \E u \in TwoUploads, ok \in BOOLEAN : UploadWrite(u, ok)

SpecUploads == InitUploads /\ [][NextUploads]_vars

\* The server after a startup without a document and without a provider
ServerQuiet ==
    /\ configured = FALSE
    /\ embeddingsSupported = FALSE
    /\ portfolioFile = FileMissing
    /\ backups = << >>
    /\ embeddingsCache = << >>
    /\ publishedBy = 0
    /\ rebuild = [ r \in Rebuilds |->
                     IF r = 0 THEN RebuildDone(0, "empty", << >>, FALSE)
                     ELSE RebuildIdle ]
    /\ chat = ChatIdle

\* what the user types
ChatboxInputs == { << >>, << " " >>, << "h", "i" >>, << " ", "h", "i", " " >> }

\* the parsed bodies of the replies
ChatBodies ==
    { [ kind |-> "object", response |-> Str(t) ] : t \in Completions \cup { << >> } }
    \cup { [ kind |-> "object", response |-> Undefined ],
           [ kind |-> "object", response |-> Null ],
           [ kind |-> "null" ], [ kind |-> "invalid" ] }

\* what fetch settles with
ChatResponses ==
    { [ kind |-> "rejects" ],
      [ kind |-> "response", ok |-> FALSE,
        body |-> [ kind |-> "object", response |-> Undefined ] ] }
    \cup { [ kind |-> "response", ok |-> TRUE, body |-> b ] : b \in ChatBodies }

\* The chatbox in the browser: the user types and sends, the requests settle.
InitChatbox == ServerQuiet /\ BrowserIdle /\ ThemesIdle

NextChatbox ==
    \/ \E value \in ChatboxInputs : Input(value)
    \/ \E c \in Sends, t \in Clock : SendMessage(c, t)
    \/ \E c \in Sends, response \in ChatResponses : FetchSettle(c, response)
    \/ \E c \in Sends : JsonSettle(c)

SpecChatbox == InitChatbox /\ [][NextChatbox]_vars

\* the content of the analytics file at the start: none, one that does not
\* parse, the old format and the current one
AnalyticsFiles ==
    { [ kind |-> "missing" ], [ kind |-> "garbage" ],
      [ kind |-> "json", v |-> [ t \in { "minimal" } |-> Count(3) ] ],
      [ kind |-> "json",
        v |-> [ t \in { "minimal", "retro" } |->
                  Counters(IF t = "minimal" THEN [ switches |-> 2, likes |-> 1 ]
                           ELSE [ likes |-> 4 ]) ] ] }

ThemeBodies ==
    { [ theme |-> theme, action |-> action ] :
        theme \in { Str("minimal"), Str("retro"), Str("dark"), Undefined },
        action \in { Undefined, Str("switch"), Str("like"), Str("share") } }

\* Two theme-analytics requests whose handlers may overlap.
InitThemes == ServerQuiet /\ BrowserIdle /\ ThemesOver(AnalyticsFiles)

NextThemes ==
    \/ \E h \in ThemeRequests, body \in ThemeBodies : ThemeRequest(h, body)
    \/ \E h \in ThemeRequests : ThemeRead(h)
    \/ \E h \in ThemeRequests, ok \in BOOLEAN : ThemeWrite(h, ok)

SpecThemes == InitThemes /\ [][NextThemes]_vars
-----------------------------------------------------------------------------
(* Properties *)

AllAbsent(cache) == \A i \in 1 .. Len(cache) : cache[i].embedding.kind = "null"
AllVectors(cache) == \A i \in 1 .. Len(cache) : cache[i].embedding.kind = "vector"

\* the chunk sequences of the files the server of Spec can hold
StoredChunks ==
    { chunkPortfolio(f) : f \in StartupFiles \cup { Json(d) : d \in UploadDocuments } }

\* cache is what one rebuild of one stored file publishes
IsCompleteResult(cache) ==
    /\ chunksOf(cache) \in StoredChunks
    /\ AllAbsent(cache) \/ AllVectors(cache)

InFlight(rb) == rb.pc \in { "chunk", "embed" }
Answered == chat.pc = "done" /\ chat.reply.status = 200

\* C1: at every moment the cache is the initial empty cache or the complete
\* result of one rebuild that has finished (all the chunks of one document, in
\* order, with vectors for all or for none), never the work of a rebuild still
\* suspended on its embedding calls; and a retrieve that was suspended on its
\* query embedding has built its result from the cache it read at its start,
\* whatever was published meanwhile.
C1_CacheIsOneFinishedRebuild ==
    /\ publishedBy = -1 => embeddingsCache = << >>
    /\ publishedBy # -1 =>
           /\ rebuild[publishedBy].pc = "done"
           /\ IsCompleteResult(embeddingsCache)
    /\ (chat.pc \in { "complete", "done" } /\ chat.mode \in { "vector", "fallback" }) =>
           chat.chunks = retrieveByEmbedding(chat.message.v, chat.cache,
                                             chat.queryEmbedding)

\* a retrieve answered in vector mode from a cache that a rebuild has replaced
\* while it was suspended
C1_Witness ==
    /\ chat.pc \in { "complete", "done" }
    /\ chat.mode = "vector"
    /\ chat.cache # embeddingsCache
    /\ chunksOf(chat.cache) # chunksOf(embeddingsCache)
    /\ Len(chat.chunks) > 0
    /\ publishedBy > 0

\* C2: in every state the cache has a vector in every record or in none; and
\* the cache published by a rebuild that found the capability unconfigured or
\* without embeddings, or one of whose embedding calls failed, has no vector
\* at all, even when other calls of that rebuild had succeeded.
C2_AllOrNothing ==
    /\ AllAbsent(embeddingsCache) \/ AllVectors(embeddingsCache)
    /\ (/\ publishedBy # -1
        /\ rebuild[publishedBy].outcome \in { "unconfigured", "unsupported", "failed" })
       => AllAbsent(embeddingsCache)

\* a rebuild one of whose calls failed after another had returned its vector
C2_Witness ==
    /\ publishedBy # -1
    /\ rebuild[publishedBy].outcome = "failed"
    /\ DOMAIN rebuild[publishedBy].vecs # {}
    /\ Len(embeddingsCache) > 1
    /\ AllAbsent(embeddingsCache)

\* C3 as stated: an upload's rebuild that fails during embedding generation
\* leaves the previously published cache in place.
C3_FailedUploadKeepsCache ==
    [][ \A u \in Uploads :
          (rebuild[u].pc = "embed" /\ rebuild'[u].outcome = "failed")
          => embeddingsCache' = embeddingsCache ]_vars

\* C3: every rebuild that fails during embedding generation, the startup one
\* and an upload's alike, publishes the chunks it read with absent vectors in
\* place of the previous cache.
C3_FailedRebuildPublishesAbsent ==
    [][ \A r \in DOMAIN rebuild :
          (rebuild[r].pc = "embed" /\ rebuild'[r].outcome = "failed")
          => /\ embeddingsCache' = absentRecords(rebuild[r].chunks)
             /\ publishedBy' = r ]_vars

\* an upload's rebuild has failed and replaced the vectors of the startup
\* rebuild by absent ones
C3_Witness ==
    /\ rebuild[0].outcome = "vectors"
    /\ publishedBy > 0
    /\ rebuild[publishedBy].outcome = "failed"
    /\ Len(embeddingsCache) > 0
    /\ AllAbsent(embeddingsCache)

\* C4: when a rebuild completes with no other rebuild in flight, the (id,
\* type, text) sequence of the cache is the chunk sequence of the document
\* that rebuild read, in the same order, whatever order its embedding calls
\* settled in.
C4_CacheReflectsDocument ==
    [][ \A r \in DOMAIN rebuild :
          (/\ InFlight(rebuild[r])
           /\ rebuild'[r].pc = "done"
           /\ \A o \in DOMAIN rebuild \ {r} : ~InFlight(rebuild[o]))
          => chunksOf(embeddingsCache') =
                 chunkPortfolio(IF rebuild[r].pc = "chunk" THEN portfolioFile
                                ELSE rebuild[r].doc) ]_vars

\* the rebuild after a replacement of the document has completed, its calls
\* having settled out of order
C4_Witness ==
    /\ publishedBy > 0
    /\ rebuild[publishedBy].outcome = "vectors"
    /\ rebuild[publishedBy].reordered
    /\ Len(backups) > 0
    /\ backups[Len(backups)] # portfolioFile
    /\ chunksOf(embeddingsCache) = chunkPortfolio(portfolioFile)
    /\ Len(embeddingsCache) > 1

\* C5: for a non-empty cache and any query, retrieveRelevantChunks returns
\* exactly min(5, cacheSize) results, in vector mode, in keyword mode and in
\* the fallback from vector to keyword mode.
C5_ResultLength ==
    (chat.pc \in { "complete", "done" } /\ chat.mode \in { "vector", "keyword", "fallback" })
    => /\ Len(chat.cache) > 0
       /\ Len(chat.chunks) = Min(5, Len(chat.cache))

\* keyword mode, a query without a word of three characters, more than five
\* records in the cache
C5_Witness ==
    /\ chat.pc \in { "complete", "done" }
    /\ chat.mode = "keyword"
    /\ chat.message = Str(q_hi)
    /\ Len(chat.cache) > 5
    /\ Len(chat.chunks) = 5

\* C6 as stated: with an empty cache retrieve returns the empty result without
\* a capability call and the answer is the fixed message in every state of the
\* generative capability.
C6_EmptyCacheFixedMessage ==
    (chat.mode = "empty" /\ Answered)
    => /\ chat.chunks = << >>
       /\ chat.embedCalls = 0
       /\ chat.reply.response = Str(msg_NotEnough)

\* C6: with an empty cache retrieve returns the empty result without a
\* capability call; the answer is the fixed message when the capability is
\* unconfigured or its call throws or returns no choice, and otherwise what
\* the completion call returned.
C6_EmptyCacheAnswer ==
    (chat.mode = "empty" /\ chat.pc \in { "complete", "done" })
    => /\ chat.chunks = << >>
       /\ chat.embedCalls = 0
       /\ Answered =>
            chat.reply.response =
              IF ~configured \/ chat.llm.kind \in { "throws", "nochoices" }
              THEN Str(msg_NotEnough)
              ELSE IF chat.llm.kind = "ok" THEN Str(chat.llm.content)
              ELSE Undefined

\* the completion call has thrown on an empty retrieval result
C6_Witness ==
    /\ Answered
    /\ chat.mode = "empty"
    /\ chat.llm.kind = "throws"
    /\ chat.reply.response = Str(msg_NotEnough)

\* C7 as stated: the result of generateResponse is a string for every outcome
\* of the completion call.
C7_ResultIsString ==
    chat.pc = "done" /\ chat.mode # "none" => chat.reply.response.kind = "string"

\* C8 as stated: POST /api/chat with a non-empty string message completes
\* with the success reply carrying a response, never with the 500 reply.
C8_ChatCannotFail ==
    (chat.pc = "done" /\ ~invalidMessage(chat.message))
    => /\ chat.reply.status = 200
       /\ chat.reply.response.kind \notin { "undefined", "null" }

\* C9: when the capability is configured and the completion call succeeds,
\* exactly one completion call was issued, the answer is the text it returned
\* and the fallback template was not taken.
C9_CompletionVerbatim ==
    (chat.pc = "done" /\ chat.llm.kind = "ok")
    => /\ configured
       /\ chat.completionCalls = 1
       /\ chat.reply = Reply(200, Str(chat.llm.content))
       /\ ~chat.fallback

\* a completion that succeeded on a non-empty retrieval result for which the
\* template would have answered otherwise
C9_Witness ==
    /\ chat.pc = "done"
    /\ chat.llm.kind = "ok"
    /\ Len(chat.chunks) > 0
    /\ chat.reply.response # Str(generateFallbackResponse(chat.message.v, chat.chunks))

\* C10: while the capability is unconfigured no embedding call and no
\* completion call is issued: no rebuild waits on embedding calls and every
\* published cache has absent vectors, no chat request waits on a query
\* embedding or a completion, and every answer is the fallback template's.
C10_UnconfiguredNoCalls ==
    ~configured
    => /\ \A r \in DOMAIN rebuild : rebuild[r].pc # "embed"
       /\ AllAbsent(embeddingsCache)
       /\ chat.pc \notin { "embedQuery", "complete" }
       /\ chat.embedCalls = 0 /\ chat.completionCalls = 0
       /\ chat.queryEmbedding = Null
       /\ Answered =>
            /\ chat.fallback
            /\ chat.reply.response =
                 Str(generateFallbackResponse(chat.message.v, chat.chunks))

\* unconfigured: the rebuild has published absent vectors and a chat request
\* has been answered by the template from a keyword retrieval
C10_Witness ==
    /\ ~configured
    /\ publishedBy # -1
    /\ rebuild[publishedBy].outcome = "unconfigured"
    /\ Answered
    /\ chat.mode = "keyword"
    /\ chat.fallback

\* the topics of the fallback template in their order: the keywords looked
\* for in the query, the chunk type wanted, the words put before its text
Topics ==
    << [ keywords |-> { kw_project }, type |-> "project", template |-> tpl_Project ],
       [ keywords |-> { kw_skill, kw_know, kw_technology }, type |-> "skill",
         template |-> tpl_Skills ],
       [ keywords |-> { kw_experience, kw_work, kw_job }, type |-> "experience",
         template |-> tpl_Experience ],
       [ keywords |-> { kw_who, kw_about, kw_name }, type |-> "profile",
         template |-> << >> ],
       [ keywords |-> { kw_certif, kw_credential, kw_qualified },
         type |-> "certification", template |-> tpl_Certifications ],
       [ keywords |-> { kw_interest, kw_hobby, kw_hobbies, kw_fun },
         type |-> "interests", template |-> << >> ] >>

Mentions(query, t) == \E k \in Topics[t].keywords : includes(toLowerCase(query), k)
Qualifies(query, chunks, t) == Mentions(query, t) /\ HasType(chunks, Topics[t].type)
FirstOfType(chunks, type) ==
    chunks[CHOOSE i \in 1 .. Len(chunks) :
               /\ chunks[i].type = type
               /\ \A j \in 1 .. (i - 1) : chunks[j].type # type]

\* C11: when the answer comes from the fallback template and chunks is not
\* empty, it is the template of the first topic, in the order project, skill,
\* experience, identity, certification, interests, whose keyword occurs in the
\* lower-cased query and of whose type chunks holds a chunk, put before the
\* text of the first chunk of that type (nothing is put before it for the
\* identity topic); and the generic sentence on chunks[0].text when no topic
\* qualifies.
C11_FallbackDecision ==
    (Answered /\ chat.fallback /\ Len(chat.chunks) > 0)
    => LET query == chat.message.v
           qualifying == { t \in 1 .. Len(Topics) : Qualifies(query, chat.chunks, t) }
       IN  chat.reply.response =
             Str(IF qualifying = {} THEN tpl_Generic \o chat.chunks[1].text
                 ELSE LET t == CHOOSE t \in qualifying : \A o \in qualifying : t <= o
                      IN  Topics[t].template
                          \o FirstOfType(chat.chunks, Topics[t].type).text)

\* an answer of a later topic, an earlier topic's keyword occurring in the
\* query without a chunk of its type
C11_Witness ==
    /\ Answered /\ chat.fallback /\ Len(chat.chunks) > 0
    /\ \E t \in 1 .. Len(Topics), o \in 1 .. Len(Topics) :
           /\ o < t
           /\ Mentions(chat.message.v, o)
           /\ ~HasType(chat.chunks, Topics[o].type)
           /\ Qualifies(chat.message.v, chat.chunks, t)
           /\ \A p \in 1 .. (t - 1) : ~Qualifies(chat.message.v, chat.chunks, p)
           /\ chat.reply.response =
                  Str(Topics[t].template \o FirstOfType(chat.chunks, Topics[t].type).text)

\* the scores retrieval gives to the records of the cache it read
ScoresIn(ch) ==
    IF ch.mode = "vector"
    THEN [ i \in 1 .. Len(ch.cache) |->
             cosineSimilarity(ch.queryEmbedding, ch.cache[i].embedding) ]
    ELSE LET words == queryWords(ch.message.v)
         IN  [ i \in 1 .. Len(ch.cache) |-> Score(keywordScore(words, ch.cache[i]), 1) ]

\* the records of the cache that the elements of the result were made from
CacheIndex(ch) ==
    [ k \in 1 .. Len(ch.chunks) |->
        CHOOSE i \in 1 .. Len(ch.cache) :
            ch.cache[i].text = ch.chunks[k].text /\ ch.cache[i].type = ch.chunks[k].type ]

\* record i comes before record j in the order of retrieval
Before(scores, i, j) ==
    \/ Greater(scores[i], scores[j])
    \/ ~Greater(scores[j], scores[i]) /\ i < j

Retrieved == chat.pc \in { "complete", "done" } /\ chat.mode \in { "vector", "keyword", "fallback" }

\* C12: in vector and in keyword mode the result holds the records of the
\* cache with their scores, highest score first and records of equal score in
\* cache order, and no record left out comes before one that is in it; so
\* when every record scores zero in keyword mode the result is the first
\* min(5, cacheSize) records of the cache in their order.
C12_OrderedByScoreStable ==
    Retrieved
    => LET n == Len(chat.chunks)
           scores == ScoresIn(chat)
           index == CacheIndex(chat)
           selected == { index[k] : k \in 1 .. n }
       IN  /\ \A k \in 1 .. n :
                 /\ \E i \in 1 .. Len(chat.cache) :
                        chat.cache[i].text = chat.chunks[k].text
                 /\ chat.chunks[k].score = scores[index[k]]
           /\ \A k \in 1 .. n, l \in 1 .. n :
                 k < l => Before(scores, index[k], index[l])
           /\ \A i \in (1 .. Len(chat.cache)) \ selected :
                 \A k \in 1 .. n : Before(scores, index[k], i)
           /\ (chat.mode # "vector" /\ \A i \in 1 .. Len(chat.cache) : scores[i].num = 0)
              => \A k \in 1 .. n : chat.chunks[k].text = chat.cache[k].text

\* a vector-mode result that is not in cache order and holds two records of
\* equal score
C12_Witness ==
    /\ Retrieved
    /\ chat.mode = "vector"
    /\ Len(chat.cache) > 5
    /\ LET index == CacheIndex(chat)
       IN  /\ \E k \in 1 .. (Len(chat.chunks) - 1) : index[k] > index[k + 1]
           /\ \E k \in 1 .. (Len(chat.chunks) - 1) :
                  /\ chat.chunks[k].score = chat.chunks[k + 1].score
                  /\ index[k] + 1 < index[k + 1]

\* the startup rebuild has returned; in SpecChunk the file is the one it read
Chunked == rebuild[0].pc = "done" /\ publishedBy = 0

Sections ==
    { "skills", "projects", "experience", "education", "certifications",
      "interests", "socials" }

\* the document has a section a chunk is made from
HasChunkSource(portfolio) ==
    \/ "profile" \in DOMAIN portfolio
    \/ \E s \in Sections :
          s \in DOMAIN portfolio /\ portfolio[s].isArray /\ Len(portfolio[s].v) > 0

\* C13 as stated: for a document with a chunk-producing section the chunk
\* sequence is not empty and no chunk has an empty text, also when a record
\* of another section lacks a field.
C13_ChunksNonEmpty ==
    (Chunked /\ portfolioFile.kind = "json" /\ HasChunkSource(portfolioFile.v))
    => /\ Len(embeddingsCache) > 0
       /\ \A i \in 1 .. Len(embeddingsCache) : Len(embeddingsCache[i].text) > 0

\* the chunk type of each section
TypeOfSection ==
    [ skills |-> "skill", projects |-> "project", experience |-> "experience",
      education |-> "education", certifications |-> "certification",
      interests |-> "interests", socials |-> "social" ]

\* the number of chunks a non-empty section gives: one per record and the
\* summary for certifications, one chunk in all for interests and for socials
ChunksOfSection(s, records) ==
    IF s = "certifications" THEN Len(records) + 1
    ELSE IF s \in { "interests", "socials" } THEN 1
    ELSE Len(records)

CountOfType(cache, type) == Cardinality({ i \in 1 .. Len(cache) : cache[i].type = type })

\* C14 as stated: a section that is missing, not an array, or an empty array
\* contributes no chunk; a non-empty section contributes one chunk per record
\* and its aggregate chunk.
C14_EmptySectionNoChunk ==
    (Chunked /\ portfolioFile.kind = "json" /\ ~chunkerThrows(portfolioFile.v))
    => \A s \in Sections :
         LET portfolio == portfolioFile.v
             count == CountOfType(embeddingsCache, TypeOfSection[s])
         IN  IF s \in DOMAIN portfolio /\ portfolio[s].isArray /\ Len(portfolio[s].v) > 0
             THEN count = ChunksOfSection(s, portfolio[s].v)
             ELSE count = 0

\* C15: when the document cannot be read or parsed the rebuild publishes the
\* empty cache and returns normally, and a chat request with a valid message
\* retrieves the empty result and is answered with status 200, not with an
\* error.
C15_UnreadableDocument ==
    (portfolioFile.kind # "json" /\ rebuild[0].pc = "done")
    => /\ rebuild[0].outcome = "empty"
       /\ publishedBy = 0
       /\ embeddingsCache = << >>
       /\ (chat.pc \in { "complete", "done" } /\ ~invalidMessage(chat.message))
          => chat.mode = "empty" /\ chat.chunks = << >> /\ chat.embedCalls = 0
       /\ (chat.pc = "done" /\ ~invalidMessage(chat.message))
          => chat.reply.status = 200

\* a chat answered on a server that started on a file that is not JSON
C15_Witness ==
    /\ portfolioFile = FileGarbage
    /\ Chunked
    /\ Answered
    /\ chat.chunks = << >>
    /\ chat.reply.response = Str(msg_NotEnough)

-----------------------------------------------------------------------------
(* cosineSimilarity *)

\* the arguments cosineSimilarity can be given in this state: the embedding
\* of a cache record and the query embedding, each a vector or absent
Arguments ==
    { embeddingsCache[i].embedding : i \in 1 .. Len(embeddingsCache) }
    \cup { chat.queryEmbedding }

ZeroCase(a, b) ==
    \/ a.kind # "vector" \/ b.kind # "vector"
    \/ Len(a.v) # Len(b.v)
    \/ dotProduct(a.v, a.v) = 0
    \/ dotProduct(b.v, b.v) = 0

\* |x - 1| <= 2^-51 for a Number x, four units in the last place below 1
NearOne(x) ==
    /\ ~x.zero /\ ~x.neg
    /\ \/ x.e = 0 - Precision /\ ~Less(Add(x.m, Big(4)), Pow2(Precision))
       \/ x.e = 1 - Precision /\ ~Less(Add(Pow2(Precision - 1), Big(2)), x.m)

\* C16 as stated: cosineSimilarity returns exactly 0 when a vector is absent,
\* the lengths differ or a norm is zero; cosineSimilarity(v, v) is exactly 1
\* for every non-zero v; cosineSimilarity(a, b) = cosineSimilarity(b, a).
C16_CosineExact ==
    \A a, b \in Arguments :
        IF ZeroCase(a, b)
        THEN cosineNumber(a, b) = NumberZero /\ cosineNumber(b, a) = NumberZero
        ELSE \A score \in { cosineNumber(a, b) } :
                 /\ a # b => score = cosineNumber(b, a)
                 /\ a = b => score = NumberOne

\* C16 amended: cosineSimilarity returns exactly 0 when a vector is absent,
\* the lengths differ or a norm is zero, and it is symmetric; for a non-zero
\* v the dot product squared equals the product of the squared norms, and the
\* Number returned for (v, v) is within 2^-51 of 1, not always 1.
C16_CosineRounded ==
    \A a, b \in Arguments :
        IF ZeroCase(a, b)
        THEN cosineNumber(a, b) = NumberZero /\ cosineNumber(b, a) = NumberZero
        ELSE \A score \in { cosineNumber(a, b) } :
                 /\ a # b => score = cosineNumber(b, a)
                 /\ a = b
                    => /\ cosineSimilarity(a, a).num > 0
                       /\ cosineSimilarity(a, a).num * cosineSimilarity(a, a).num
                            = cosineSimilarity(a, a).den2
                       /\ NearOne(score)

\* a vector retrieval with the query embedding << 1, 1 >> over a cache that
\* holds that vector, where the score is not the Number 1, and a record whose
\* embedding makes a zero case
C16_Witness ==
    /\ chat.mode = "vector"
    /\ chat.queryEmbedding = Vector(<< 1, 1 >>)
    /\ \E i \in 1 .. Len(embeddingsCache) :
           /\ embeddingsCache[i].embedding = chat.queryEmbedding
           /\ cosineNumber(chat.queryEmbedding, embeddingsCache[i].embedding) # NumberOne
    /\ \E i \in 1 .. Len(embeddingsCache) :
           ZeroCase(chat.queryEmbedding, embeddingsCache[i].embedding)

-----------------------------------------------------------------------------
(* The request handlers *)

\* C17: a chat request whose message is missing, empty or not a string is
\* answered with status 400 at once; retrieveRelevantChunks and
\* generateResponse are not entered and no capability call is made for it.
C17_InvalidMessageRejected ==
    (chat.pc # "idle" /\ chat.message \in InvalidMessages)
    => /\ chat.pc = "done"
       /\ chat.reply = Reply(400, Undefined)
       /\ chat.mode = "none"
       /\ chat.chunks = << >>
       /\ chat.queryEmbedding = Null
       /\ chat.llm.kind = "none"
       /\ ~chat.fallback
       /\ chat.embedCalls = 0
       /\ chat.completionCalls = 0

\* a message that is not a string has been rejected on a server whose
\* capability is configured and whose cache holds vectors
C17_Witness ==
    /\ chat.pc = "done"
    /\ chat.message = NotAString
    /\ chat.reply.status = 400
    /\ configured /\ embeddingsSupported
    /\ hasEmbeddings(embeddingsCache)

\* a document with a profile whose name is not empty
HasName(portfolio) ==
    /\ "profile" \in DOMAIN portfolio
    /\ "name" \in DOMAIN portfolio.profile
    /\ portfolio.profile.name # << >>

\* no JSON data, a file that is not JSON, or a document without a name
Invalid(body) ==
    \/ body.kind \in { "none", "garbage" }
    \/ body.kind = "json" /\ ~HasName(body.v)

C19_BackupPrecedesReplacement ==
    [][ \A u \in DOMAIN rebuild \ { 0 } :
          /\ (/\ rebuild[u].pc = "write"
              /\ rebuild'[u].pc = "chunk"
              /\ portfolioFile.kind # "missing")
             => \E i \in 1 .. Len(backups) : backups[i] = portfolioFile
          /\ (/\ rebuild[u].pc = "backup"
              /\ rebuild'[u].pc # "backup"
              /\ backups' = backups)
             => /\ rebuild'[u].pc = "done"
                /\ rebuild'[u].reply = 500
                /\ UNCHANGED << portfolioFile, embeddingsCache, publishedBy >> ]_vars

\* a Basic header whose credentials are the configured user name, a colon
\* and the configured password
Authentic(authorization) ==
    /\ authorization.kind = "basic"
    /\ authorization.credentials = validUsername \o << ":" >> \o validPassword

\* C20 as stated, for the portfolio upload: a request without a Basic header
\* whose user name and password equal the configured ones is answered with
\* 401 and changes neither the document, the backups nor the cache.
C20_AdminOnly ==
    [][ \A u \in DOMAIN rebuild \ { 0 } :
          \A req \in UploadRequests :
              (~Authentic(req.authorization) /\ UploadRequest(u, req))
              => /\ rebuild'[u].pc = "done"
                 /\ rebuild'[u].reply = 401
                 /\ UNCHANGED << portfolioFile, backups, embeddingsCache >> ]_vars

-----------------------------------------------------------------------------
(* The chunker and the keyword retrieval *)

\* C21: no two chunks of one chunkPortfolio call share an id; the cache a
\* rebuild publishes holds the chunks of one call with their ids.
C21_ChunkIdsUnique ==
    \A i, j \in 1 .. Len(embeddingsCache) :
        i # j => embeddingsCache[i].id # embeddingsCache[j].id

\* a cache with two project chunks, and a cache with a certification chunk
\* next to the certifications summary
C21_Witness ==
    \/ Cardinality({ i \in 1 .. Len(embeddingsCache) :
                        embeddingsCache[i].type = "project" }) > 1
    \/ /\ portfolioFile = Json(DocCert)
       /\ Cardinality({ i \in 1 .. Len(embeddingsCache) :
                           embeddingsCache[i].type = "certification" }) > 1

\* the tokens of a query: its lower-cased words of three characters or more
Tokens(query) == queryWords(query)

\* 1 point per token that is a substring of the lower-cased text
TextPoints(tokens, chunk) ==
    Cardinality({ i \in 1 .. Len(tokens) : includes(toLowerCase(chunk.text), tokens[i]) })

KeywordsOf(chunk) ==
    IF chunk.type \in DOMAIN typeKeywords THEN typeKeywords[chunk.type] ELSE << >>

\* token-contains-keyword or keyword-contains-token
Match(token, keyword) == includes(token, keyword) \/ includes(keyword, token)

\* the pairs of a token and a keyword of the chunk's type that match
MatchingPairs(tokens, chunk) ==
    { p \in (1 .. Len(tokens)) \X (1 .. Len(KeywordsOf(chunk))) :
        Match(tokens[p[1]], KeywordsOf(chunk)[p[2]]) }

\* the keywords of the chunk's type that match some token
MatchedKeywords(tokens, chunk) ==
    { k \in 1 .. Len(KeywordsOf(chunk)) :
        \E i \in 1 .. Len(tokens) : Match(tokens[i], KeywordsOf(chunk)[k]) }

KeywordMode == Retrieved /\ chat.mode \in { "keyword", "fallback" }

\* C22 as stated: in keyword mode the score of a chunk is 1 point per token
\* found in its lower-cased text plus 2 points per match between a token and
\* a keyword of the list of its type.
C22_ScorePerMatch ==
    KeywordMode
    => \A k \in 1 .. Len(chat.chunks) :
           chat.chunks[k].score
             = Score(TextPoints(Tokens(chat.message.v), chat.chunks[k])
                     + 2 * Cardinality(MatchingPairs(Tokens(chat.message.v), chat.chunks[k])),
                     1)

\* C22 amended: in keyword mode the score of a chunk is 1 point per token
\* found in its lower-cased text plus 2 points per keyword of the list of its
\* type that matches at least one token, however many tokens match it.
C22_ScorePerKeyword ==
    KeywordMode
    => \A k \in 1 .. Len(chat.chunks) :
           chat.chunks[k].score
             = Score(TextPoints(Tokens(chat.message.v), chat.chunks[k])
                     + 2 * Cardinality(MatchedKeywords(Tokens(chat.message.v), chat.chunks[k])),
                     1)

\* a keyword retrieval in which two tokens match the same keyword of a chunk
\* of the result
C22_Witness ==
    /\ KeywordMode
    /\ \E k \in 1 .. Len(chat.chunks) :
           /\ Cardinality(MatchingPairs(Tokens(chat.message.v), chat.chunks[k]))
                > Cardinality(MatchedKeywords(Tokens(chat.message.v), chat.chunks[k]))
           /\ TextPoints(Tokens(chat.message.v), chat.chunks[k]) > 0

\* the records of the cache that score above zero for the query
Positive(ch) ==
    { i \in 1 .. Len(ch.cache) :
        TextPoints(Tokens(ch.message.v), ch.cache[i])
        + Cardinality(MatchedKeywords(Tokens(ch.message.v), ch.cache[i])) > 0 }

\* C23: in keyword mode, when at least 5 records score above zero the result
\* is 5 records that all score above zero; otherwise it is min(5, cacheSize)
\* records, every record that scores above zero among the first 5 of the
\* order is in it, and the zero-score records come after the positive ones.
C23_KeywordSelection ==
    KeywordMode
    => LET n == Len(chat.chunks)
           positive == Cardinality(Positive(chat))
       IN  IF positive >= 5
           THEN /\ n = 5
                /\ \A k \in 1 .. n : chat.chunks[k].score.num > 0
           ELSE /\ n = Min(5, Len(chat.cache))
                /\ Cardinality({ k \in 1 .. n : chat.chunks[k].score.num > 0 }) = positive
                /\ \A k \in 1 .. n :
                       (chat.chunks[k].score.num > 0) = (k <= positive)

\* six records of which five or more score above zero
C23_Witness ==
    /\ KeywordMode
    /\ Len(chat.cache) > 5
    /\ Cardinality(Positive(chat)) >= 5
    /\ Len(chat.chunks) = 5

\* fewer than five records score above zero and the result has zero-score
\* records after them
C23_WitnessZero ==
    /\ KeywordMode
    /\ Len(chat.cache) > 5
    /\ Cardinality(Positive(chat)) \in 1 .. 4
    /\ chat.chunks[5].score.num = 0

-----------------------------------------------------------------------------
(* Retrieval and the cache *)

\* C24: a query embedding is requested only for a cache that has a vector;
\* when it comes back absent the result is what retrieveByKeyword returns for
\* the same query and cache, the step leaves the cache and its vectors as
\* they are, and the next request on a cache with vectors requests a query
\* embedding again.
C24_FallbackForThisCallOnly ==
    /\ [](chat.embedCalls > 0 => hasEmbeddings(chat.cache))
    /\ []((Retrieved /\ chat.mode = "fallback")
           => /\ hasEmbeddings(chat.cache)
              /\ chat.queryEmbedding = Null
              /\ chat.chunks = retrieveByKeyword(chat.message.v, chat.cache))
    /\ [][ /\ (chat.pc = "embedQuery" /\ chat'.pc # "embedQuery")
              => embeddingsCache' = embeddingsCache
           /\ (/\ chat.pc = "idle" /\ chat'.pc # "idle"
               /\ chat'.message \notin InvalidMessages
               /\ hasEmbeddings(embeddingsCache))
              => /\ chat'.pc = "embedQuery"
                 /\ chat'.embedCalls = 1
                 /\ chat'.mode = "none" ]_vars

\* the query embedding call failed on a cache with vectors and the request
\* was answered from the keyword result
C24_Witness ==
    /\ chat.pc = "done"
    /\ chat.mode = "fallback"
    /\ chat.embedCalls = 1
    /\ hasEmbeddings(embeddingsCache)
    /\ Len(chat.chunks) > 0

\* C25: a step of a chat request, in any mode and with any outcome of the
\* capabilities, leaves the cache as it is, records, order and vectors; the
\* cache changes only in a step in which a rebuild publishes.
C25_RetrievalLeavesCache ==
    [][ /\ chat' # chat => embeddingsCache' = embeddingsCache
        /\ embeddingsCache' # embeddingsCache
           => \E r \in DOMAIN rebuild :
                  /\ rebuild[r].pc \in { "chunk", "embed" }
                  /\ rebuild'[r].pc = "done"
                  /\ publishedBy' = r ]_vars

\* a request has been answered from a keyword retrieval whose order differs
\* from the order of the cache, which still holds its records in their order
C25_Witness ==
    /\ chat.pc = "done"
    /\ chat.mode \in { "keyword", "fallback" }
    /\ Len(chat.chunks) > 1
    /\ chat.chunks[1].text # embeddingsCache[1].text
    /\ chat.cache = embeddingsCache
    /\ chunksOf(embeddingsCache) = chunkPortfolio(portfolioFile)

-----------------------------------------------------------------------------
(* The experience chunk *)

\* the record has one highlight or more
HasHighlights(exp) ==
    /\ "highlights" \in DOMAIN exp
    /\ exp.highlights.isArray
    /\ Len(exp.highlights.v) > 0

ExperienceHead(exp) ==
    str_ExperienceP \o Interp(exp, "role") \o str_at \o Interp(exp, "company")
    \o str_lpar \o Interp(exp, "period") \o str_rpardot

\* C26 as stated: the text of an experience chunk ends with the highlights
\* joined after "Key achievements:" when the record has highlights, and with
\* the description when it has none, an empty highlights list included.
C26_DescriptionWithoutHighlights ==
    (Chunked /\ portfolioFile.kind = "json" /\ ~chunkerThrows(portfolioFile.v))
    => LET experience == SectionOf(portfolioFile.v, "experience")
       IN  \A i \in 1 .. Len(experience) :
               \E k \in 1 .. Len(embeddingsCache) :
                   /\ embeddingsCache[k].id = id_experience \o IntToStr(i - 1)
                   /\ embeddingsCache[k].text =
                        ExperienceHead(experience[i])
                        \o ( IF HasHighlights(experience[i])
                             THEN str_KeyAch \o join(experience[i].highlights.v, str_dotsp)
                                  \o str_dot
                             ELSE IF "description" \in DOMAIN experience[i]
                                  THEN str_sp \o experience[i].description
                                  ELSE << >> )

-----------------------------------------------------------------------------
(* Overlapping uploads *)

\* C27 as stated: once no upload and no rebuild is in progress, the cache
\* holds the chunks of the stored document, the last one written, whatever
\* the order in which the embedding calls of overlapping rebuilds settled.
C27_CacheFollowsLastDocument ==
    (\A r \in DOMAIN rebuild : rebuild[r].pc \in { "idle", "done" })
    => chunksOf(embeddingsCache) = chunkPortfolio(portfolioFile)

-----------------------------------------------------------------------------
(* Stale vectors in vector mode *)

\* the record has no vector, or one whose length is not that of the query vector
Stale(queryEmbedding, record) ==
    \/ record.embedding.kind # "vector"
    \/ Len(record.embedding.v) # Len(queryEmbedding.v)

\* C28: in vector mode the result holds min(5, cacheSize) elements, each with
\* the text and the type of a record of the cache and the cosine similarity
\* of that record's vector to the query vector, which is exactly 0 for a
\* record whose vector is absent or of another length than the query vector.
C28_StaleVectorScoresZero ==
    /\ \A q \in RetrieveQueryVectors : cosineSimilarity(Vector(q), Null) = Zero
    /\ (chat.pc \in { "complete", "done" } /\ chat.mode = "vector")
       => LET index == CacheIndex(chat)
          IN  /\ Len(chat.chunks) = Min(5, Len(chat.cache))
              /\ \A k \in 1 .. Len(chat.chunks) :
                     /\ DOMAIN chat.chunks[k] = { "text", "type", "score" }
                     /\ \E i \in 1 .. Len(chat.cache) :
                            /\ chat.cache[i].text = chat.chunks[k].text
                            /\ chat.cache[i].type = chat.chunks[k].type
                     /\ chat.chunks[k].score =
                            IF Stale(chat.queryEmbedding, chat.cache[index[k]])
                            THEN Zero
                            ELSE cosineSimilarity(chat.queryEmbedding,
                                                  chat.cache[index[k]].embedding)

\* a request has been answered in vector mode from a cache of more than five
\* records whose vectors all have another length than the query vector
C28_Witness ==
    /\ chat.pc = "done"
    /\ chat.mode = "vector"
    /\ Len(chat.cache) > 5
    /\ Len(chat.chunks) = 5
    /\ \A i \in 1 .. Len(chat.cache) :
           /\ chat.cache[i].embedding.kind = "vector"
           /\ Stale(chat.queryEmbedding, chat.cache[i])
    /\ \A k \in 1 .. 5 : chat.chunks[k].text = chat.cache[k].text

-----------------------------------------------------------------------------
(* The chatbox *)

\* the calls of sendMessage that wait for fetch or for response.json()
Pending == { c \in Sends : sending[c].pc \in { "fetch", "json" } }

\* what an element of the message list is: a user message, a bot message or
\* the loading indicator
KindOf(element) == IF element.spinner THEN "loading" ELSE element.type

\* the elements a call of sendMessage accounts for
Shape(c) ==
    CASE sending[c].pc = "fetch" -> << "user", "loading" >>
      [] sending[c].pc = "json" -> << "user" >>
      [] sending[c].pc = "done" -> << "user", "bot" >>
      [] OTHER -> << >>

RECURSIVE Shapes(_)
Shapes(c) == IF c = 0 THEN << >> ELSE Shapes(c - 1) \o Shape(c)

\* C29: at most one chat request is pending and isProcessing is true exactly
\* while one is; a call of sendMessage made meanwhile adds nothing; and the
\* message list holds, for every request that has settled (answered, refused
\* with an HTTP error, or failed), the user message followed by exactly one
\* bot message and no loading indicator, the indicator being shown only while
\* fetch is pending.
C29_SingleFlight ==
    /\ Cardinality(Pending) <= 1
    /\ isProcessing <=> Pending # {}
    /\ [ i \in 1 .. Len(chatboxMessages) |-> KindOf(chatboxMessages[i]) ] = Shapes(MaxSends)
    /\ \A i \in 1 .. Len(chatboxMessages) :
           KindOf(chatboxMessages[i]) = "user"
           => \E c \in Sends : /\ sending[c].pc \in { "fetch", "json", "done" }
                               /\ chatboxMessages[i].text = sending[c].message

\* a call of sendMessage has returned at once while a request was waiting
\* for its body, the input holding a message
C29_Witness ==
    /\ sending[1].pc = "json"
    /\ sending[2].pc = "returned"
    /\ Len(trim(chatboxInput)) > 0
    /\ isProcessing

\* three requests have settled: one failed, one was refused, one was answered
C29_WitnessSettled ==
    /\ \A c \in Sends : sending[c].pc = "done"
    /\ ~isProcessing
    /\ Len(chatboxMessages) = 6
    /\ chatboxMessages[2].text = msg_Trouble
    /\ chatboxMessages[4].text = msg_Sorry
    /\ chatboxMessages[6].text \in Completions

-----------------------------------------------------------------------------
(* Theme analytics *)

Fields == { "switches", "likes" }

\* the counter of a theme as the file stores it: a number is the count of
\* switches of the old format, what is not stored counts as 0
Stored(file, theme, field) ==
    IF file.kind # "json" \/ theme \notin DOMAIN file.v THEN 0
    ELSE IF file.v[theme].kind = "number"
         THEN IF field = "switches" THEN file.v[theme].v ELSE 0
         ELSE IF field \in DOMAIN file.v[theme].v THEN file.v[theme].v[field] ELSE 0

\* the requests answered with success that name the theme and the action
\* behind the counter
Counted(theme, field) ==
    { h \in ThemeRequests :
        /\ themeRequest[h].pc = "done"
        /\ themeRequest[h].status = 200
        /\ themeRequest[h].theme = Str(theme)
        /\ themeRequest[h].action = Str(IF field = "switches" THEN "switch" ELSE "like") }

\* C30 as stated: once the requests have been answered, every stored counter
\* is its value at the start plus the number of successful requests for its
\* theme and action, whatever the interleaving of the handlers; and a
\* request with an invalid theme is answered with 400.
C30_EveryEventCounted ==
    (\A h \in ThemeRequests : themeRequest[h].pc \in { "idle", "done" })
    => /\ \A theme \in ThemeNames, field \in Fields :
              Stored(analyticsFile, theme, field) =
                  Stored(analyticsBefore, theme, field)
                      + Cardinality(Counted(theme, field))
       /\ \A h \in ThemeRequests :
              (themeRequest[h].pc = "done" /\ themeRequest[h].theme \notin { Str(t) : t \in ThemeNames })
              => themeRequest[h].status = 400

=============================================================================
